---- MODULE Spec2Model ----
(***************************************************************************)
(* Model of the cosm registry workflow (src/commands/registry.go) and the   *)
(* semantic-version helpers (src/commands/utils.go).                        *)
(*                                                                          *)
(* Every command of the CLI is one process run: it starts in the caller's   *)
(* directory, performs a linear sequence of file and git steps and ends by  *)
(* returning or by os.Exit.  One action models one whole command.  Which    *)
(* external step (file system call, git invocation) fails in a run is an    *)
(* input of the action, drawn from the failure points the code tests for.   *)
(* A failing file write is taken to leave the file as it was, and the       *)
(* best-effort calls inside cleanupInit and cleanupTempClone (which only    *)
(* print a warning on error) are taken to succeed.                          *)
(*                                                                          *)
(* Strings the code parses (version strings, tags) are sequences of         *)
(* one-character strings; names, URLs and package UUIDs are opaque strings. *)
(*                                                                          *)
(* Spec runs commands one after another.  SpecManifest runs registry add    *)
(* on package repositories with broken manifests.  SpecPull runs registry   *)
(* add on a registry clone that is behind its remote.  SpecUtil calls the   *)
(* helper functions on their own (call holds the last call and its          *)
(* result).  SpecConcurrent runs two registry init processes step by step   *)
(* against one home directory (procs holds their positions).                *)
(***************************************************************************)
EXTENDS Integers, Sequences, FiniteSets, TLC

VARIABLES registriesFile, regDirs, remoteReg, pkgTags, clones, tmpClones,
          ncmds, last, call, procs

vars == <<registriesFile, regDirs, remoteReg, pkgTags, clones, tmpClones,
          ncmds, last, call, procs>>

(* Number of commands run one after another in a behaviour. *)
MaxCmds == 2

----------------------------------------------------------------------------
(* String helpers: the parts of Go's strings and strconv packages the code  *)
(* uses, on sequences of characters.                                        *)

Digits == {"0", "1", "2", "3", "4", "5", "6", "7", "8", "9"}

DigitVal(c) ==
  CASE c = "0" -> 0 [] c = "1" -> 1 [] c = "2" -> 2 [] c = "3" -> 3
    [] c = "4" -> 4 [] c = "5" -> 5 [] c = "6" -> 6 [] c = "7" -> 7
    [] c = "8" -> 8 [] c = "9" -> 9

RECURSIVE DecVal(_)
DecVal(s) ==
  IF s = <<>> THEN 0
  ELSE 10 * DecVal(SubSeq(s, 1, Len(s) - 1)) + DigitVal(s[Len(s)])

(* strconv.Atoi: an optional sign followed by at least one decimal digit. *)
Atoi(s) ==
  LET signed == s # <<>> /\ s[1] \in {"+", "-"}
      body   == IF signed THEN Tail(s) ELSE s
      ok     == body # <<>> /\ \A i \in 1..Len(body) : body[i] \in Digits
  IN  [ok  |-> ok,
       val |-> IF ~ok THEN 0
               ELSE IF signed /\ s[1] = "-" THEN 0 - DecVal(body)
               ELSE DecVal(body)]

HasPrefix(s, c) == s # <<>> /\ s[1] = c

TrimPrefix(s, c) == IF HasPrefix(s, c) THEN Tail(s) ELSE s

(* strings.Split(s, "."): always at least one part; "" gives [""]. *)
RECURSIVE Split(_)
Split(s) ==
  IF s = <<>> THEN << <<>> >>
  ELSE LET rest == Split(Tail(s)) IN
       IF Head(s) = "." THEN << <<>> >> \o rest
       ELSE << <<Head(s)>> \o Head(rest) >> \o Tail(rest)

(* ParseSemVer without the error returns of strconv.Atoi. *)
ParseSemVerUnchecked(version) ==
  LET parts == Split(TrimPrefix(version, "v")) IN
  IF Len(parts) < 2
  THEN [ok |-> FALSE, Major |-> 0, Minor |-> 0, Patch |-> 0]
  ELSE [ok    |-> TRUE,
        Major |-> Atoi(parts[1]).val,
        Minor |-> Atoi(parts[2]).val,
        Patch |-> IF Len(parts) > 2 THEN Atoi(parts[3]).val ELSE 0]

(* ParseSemVer refusing more than three components. *)
ParseSemVerUpToThree(version) ==
  LET parts == Split(TrimPrefix(version, "v"))
      bad   == [ok |-> FALSE, Major |-> 0, Minor |-> 0, Patch |-> 0]
  IN  IF Len(parts) < 2 \/ Len(parts) > 3 THEN bad
      ELSE IF ~Atoi(parts[1]).ok \/ ~Atoi(parts[2]).ok THEN bad
      ELSE IF Len(parts) > 2 /\ ~Atoi(parts[3]).ok THEN bad
      ELSE [ok    |-> TRUE,
            Major |-> Atoi(parts[1]).val,
            Minor |-> Atoi(parts[2]).val,
            Patch |-> IF Len(parts) > 2 THEN Atoi(parts[3]).val ELSE 0]

(* ParseSemVer: ok is FALSE where the code returns an error. *)
ParseSemVer(version) ==
  LET parts == Split(TrimPrefix(version, "v"))
      bad   == [ok |-> FALSE, Major |-> 0, Minor |-> 0, Patch |-> 0]
      major == Atoi(parts[1])
      minor == Atoi(parts[2])
      patch == Atoi(parts[3])
  IN  IF Len(parts) < 2 THEN bad
      ELSE IF ~major.ok THEN bad
      ELSE IF ~minor.ok THEN bad
      ELSE IF Len(parts) > 2 /\ ~patch.ok THEN bad
      ELSE [ok    |-> TRUE,
            Major |-> major.val,
            Minor |-> minor.val,
            Patch |-> IF Len(parts) > 2 THEN patch.val ELSE 0]

(* MaxSemVer comparing the patch numbers with > in its last test. *)
MaxSemVerSecondOnTie(v1, v2) ==
  LET s1 == ParseSemVer(v1)
      s2 == ParseSemVer(v2)
  IN  IF ~s1.ok \/ ~s2.ok THEN [err |-> TRUE, out |-> <<>>]
      ELSE IF s1.Major > s2.Major THEN [err |-> FALSE, out |-> v1]
      ELSE IF s1.Major < s2.Major THEN [err |-> FALSE, out |-> v2]
      ELSE IF s1.Minor > s2.Minor THEN [err |-> FALSE, out |-> v1]
      ELSE IF s1.Minor < s2.Minor THEN [err |-> FALSE, out |-> v2]
      ELSE IF s1.Patch > s2.Patch THEN [err |-> FALSE, out |-> v1]
      ELSE [err |-> FALSE, out |-> v2]

(* MaxSemVer: err is TRUE where the code returns "" and an error. *)
MaxSemVer(v1, v2) ==
  LET s1 == ParseSemVer(v1)
      s2 == ParseSemVer(v2)
  IN  IF ~s1.ok THEN [err |-> TRUE, out |-> <<>>]
      ELSE IF ~s2.ok THEN [err |-> TRUE, out |-> <<>>]
      ELSE IF s1.Major > s2.Major THEN [err |-> FALSE, out |-> v1]
      ELSE IF s1.Major < s2.Major THEN [err |-> FALSE, out |-> v2]
      ELSE IF s1.Minor > s2.Minor THEN [err |-> FALSE, out |-> v1]
      ELSE IF s1.Minor < s2.Minor THEN [err |-> FALSE, out |-> v2]
      ELSE IF s1.Patch >= s2.Patch THEN [err |-> FALSE, out |-> v1]
      ELSE [err |-> FALSE, out |-> v2]

----------------------------------------------------------------------------
(* The file system and the git remotes.                                     *)

EmptyMap == [x \in {} |-> x]

Put(f, k, v) == [x \in DOMAIN f \cup {k} |-> IF x = k THEN v ELSE f[x]]

(* Registry names and git URLs a command line can carry ("" is the empty    *)
(* argument the commands reject).                                           *)
RegNames == {"r1", "r2"}
RegURLs  == {"g1", "g2"}

(* The package repositories a command line can name.  Project.json and the *)
(* tags each repository starts with (Deps lists the names of the packages   *)
(* the project depends on: pA2 by; pC ax; pD ax, by):                       *)
(*   pA   "ax" u1 "v1.0.0"  no tags                                         *)
(*   pA2  "ax" u2 "v2.0"    tags v1.0, v1.1.0                               *)
(*   pB   "by" u1 "1.0.0"   no tags                                         *)
(*   pC   "cz" u3 "v0.1.0"  tags rc, v1 (none of them a version tag)        *)
(*   pD   "dw" u4 "v0.9.0"  tags n, v1.0-rc, v2.0.0                         *)
PkgURLs == {"pA", "pA2", "pB", "pC", "pD"}

(* Package repositories whose Project.json validateProjectFile rejects:     *)
(*   pE   no Project.json            pF   Project.json is not JSON          *)
(*   pG   no name, no UUID, no version                                      *)
(*   pH   "hx", no UUID, no version                                         *)
(*   pI   "ix", UUID "zz" (not a UUID), no version                          *)
(*   pJ   "jx" u1, no version        pK   "kx" u1, version "v1"             *)
BrokenURLs == {"pE", "pF", "pG", "pH", "pI", "pJ", "pK"}

ValidUUIDs == {"u1", "u2", "u3", "u4"}

Project(url) ==
  CASE url = "pA"  -> [Deps |-> <<>>,
                       file |-> "ok", Name |-> <<"a", "x">>, UUID |-> "u1",
                       Version |-> <<"v", "1", ".", "0", ".", "0">>]
    [] url = "pA2" -> [Deps |-> <<"by">>,
                       file |-> "ok", Name |-> <<"a", "x">>, UUID |-> "u2",
                       Version |-> <<"v", "2", ".", "0">>]
    [] url = "pB"  -> [Deps |-> <<>>,
                       file |-> "ok", Name |-> <<"b", "y">>, UUID |-> "u1",
                       Version |-> <<"1", ".", "0", ".", "0">>]
    [] url = "pC"  -> [Deps |-> <<"ax">>,
                       file |-> "ok", Name |-> <<"c", "z">>, UUID |-> "u3",
                       Version |-> <<"v", "0", ".", "1", ".", "0">>]
    [] url = "pD"  -> [Deps |-> <<"ax", "by">>,
                       file |-> "ok", Name |-> <<"d", "w">>, UUID |-> "u4",
                       Version |-> <<"v", "0", ".", "9", ".", "0">>]
    [] url = "pE"  -> [Deps |-> <<>>,
                       file |-> "missing", Name |-> <<>>, UUID |-> "",
                       Version |-> <<>>]
    [] url = "pF"  -> [Deps |-> <<>>,
                       file |-> "badjson", Name |-> <<>>, UUID |-> "",
                       Version |-> <<>>]
    [] url = "pG"  -> [Deps |-> <<>>,
                       file |-> "ok", Name |-> <<>>, UUID |-> "",
                       Version |-> <<>>]
    [] url = "pH"  -> [Deps |-> <<>>,
                       file |-> "ok", Name |-> <<"h", "x">>, UUID |-> "",
                       Version |-> <<>>]
    [] url = "pI"  -> [Deps |-> <<>>,
                       file |-> "ok", Name |-> <<"i", "x">>, UUID |-> "zz",
                       Version |-> <<>>]
    [] url = "pJ"  -> [Deps |-> <<>>,
                       file |-> "ok", Name |-> <<"j", "x">>, UUID |-> "u1",
                       Version |-> <<>>]
    [] url = "pK"  -> [Deps |-> <<>>,
                       file |-> "ok", Name |-> <<"k", "x">>, UUID |-> "u1",
                       Version |-> <<"v", "1">>]

InitialTags(url) ==
  CASE url = "pA2" -> << <<"v", "1", ".", "0">>,
                         <<"v", "1", ".", "1", ".", "0">> >>
    [] url = "pC"  -> << <<"r", "c">>, <<"v", "1">> >>
    [] url = "pD"  -> << <<"n">>,
                         <<"v", "1", ".", "0", "-", "r", "c">>,
                         <<"v", "2", ".", "0", ".", "0">> >>
    [] OTHER       -> <<>>

(* The commit a tag of a package repository points at. *)
Sha1(url, tag) == <<url, tag>>

TmpCloneDir(id) == <<"clones", "tmp-clone", id>>

PackageCloneDir(packageUUID) == <<"clones", packageUUID>>

(* registry.json: types.Registry as the code fills it. *)
NoMeta == [exists |-> FALSE, name |-> "", uuid |-> 0, giturl |-> "",
           packages |-> EmptyMap]

(* Working tree of a registry repository apart from .git: the descriptor,   *)
(* the package directories <Letter>/<name>, their versions.json and the     *)
(* specs.json of each version directory.                                    *)
EmptyTree == [meta |-> NoMeta, pkgdirs |-> {}, versions |-> EmptyMap,
              specs |-> EmptyMap]

(* registries/<name>: absent, or a clone with its working tree. *)
NoDir == [exists |-> FALSE, tree |-> EmptyTree, origin |-> ""]

OriginalDir == <<"orig">>

RegistryDir(name) == <<"registries", name>>

----------------------------------------------------------------------------
(* registry init <registry name> <giturl>                                   *)

InitFailPoints == {"none", "getwd", "cosmdir", "mkdir", "readIndex", "clone",
                   "chdir", "readDir", "writeIndex", "writeMeta", "stage",
                   "commit", "push", "restore"}

setupAndParseInitArgs(registryName, gitURL, fail) ==
  IF fail = "getwd" THEN "failed to get original directory"
  ELSE IF registryName = "" THEN "registry name cannot be empty"
  ELSE IF gitURL = "" THEN "git URL cannot be empty"
  ELSE IF fail = "cosmdir" THEN "failed to get global .cosm directory"
  ELSE IF fail = "mkdir" THEN "failed to create registries directory"
  ELSE ""

(* loadAndCheckRegistries without its loop over the names. *)
loadRegistriesUnchecked(file, registryName, fail) ==
  IF fail = "readIndex"
  THEN [err |-> "failed to read registries.json", names |-> <<>>]
  ELSE [err |-> "", names |-> IF file.exists THEN file.names ELSE <<>>]

(* registries.json is only ever written by json.MarshalIndent, so it parses *)
(* whenever it can be read; a missing file reads as the nil slice.          *)
loadAndCheckRegistries(file, registryName, fail) ==
  LET registryNames == IF file.exists THEN file.names ELSE <<>>
  IN  IF fail = "readIndex"
      THEN [err |-> "failed to read registries.json", names |-> <<>>]
      ELSE IF \E i \in 1..Len(registryNames) : registryNames[i] = registryName
      THEN [err |-> "already exists", names |-> <<>>]
      ELSE [err |-> "", names |-> registryNames]

(* git clone refuses a destination that exists and is not empty; a          *)
(* directory left by an earlier clone always holds .git.                    *)
cloneAndEnterRegistry(dirs, remote, registryName, gitURL, fail) ==
  IF fail = "clone" \/ dirs[registryName].exists
  THEN [err |-> "failed to clone repository", dirs |-> dirs,
        cwd |-> OriginalDir]
  ELSE LET cloned == [dirs EXCEPT ![registryName] =
                        [exists |-> TRUE, tree |-> remote[gitURL],
                         origin |-> gitURL]]
       IN  IF fail = "chdir"
           THEN [err |-> "failed to change to registry directory",
                 dirs |-> cloned, cwd |-> OriginalDir]
           ELSE [err |-> "", dirs |-> cloned,
                 cwd |-> RegistryDir(registryName)]

ensureDirectoryEmpty(tree, fail) ==
  IF fail = "readDir" THEN "failed to read directory"
  ELSE IF tree.meta.exists \/ tree.pkgdirs # {} THEN "is not empty"
  ELSE ""

(* updateRegistriesList writing the new name alone. *)
writeRegistriesListAlone(file, registryNames, registryName, fail) ==
  IF fail = "writeIndex"
  THEN [err |-> "failed to write registries.json", file |-> file]
  ELSE [err |-> "", file |-> [exists |-> TRUE, names |-> <<registryName>>]]

updateRegistriesList(file, registryNames, registryName, fail) ==
  IF fail = "writeIndex"
  THEN [err |-> "failed to write registries.json", file |-> file]
  ELSE [err |-> "",
        file |-> [exists |-> TRUE,
                  names |-> Append(registryNames, registryName)]]

(* uuid.New() returns a value no earlier call returned.  A command calls it *)
(* at most once, so the number of the command stands for the value.         *)
NewUUID == ncmds + 1

initializeRegistryMetadata(tree, registryName, gitURL, newUUID, fail) ==
  IF fail = "writeMeta"
  THEN [err |-> "failed to write registry.json", tree |-> tree]
  ELSE [err |-> "",
        tree |-> [tree EXCEPT !.meta =
                    [exists |-> TRUE, name |-> registryName,
                     uuid |-> newUUID, giturl |-> gitURL,
                     packages |-> EmptyMap]]]

(* git add registry.json; git commit; git push origin main: on success the  *)
(* remote holds the descriptor. *)
commitAndPushInitialRegistryChanges(remoteTree, tree, fail) ==
  IF fail = "stage"
  THEN [err |-> "failed to stage registry.json", remote |-> remoteTree]
  ELSE IF fail = "commit"
  THEN [err |-> "failed to commit initial registry setup",
        remote |-> remoteTree]
  ELSE IF fail = "push"
  THEN [err |-> "failed to push initial commit", remote |-> remoteTree]
  ELSE [err |-> "", remote |-> [remoteTree EXCEPT !.meta = tree.meta]]

(* cleanupInit(originalDir, registrySubDir, false): chdir back only. *)
cleanupInitKeepingDir(dirs, registryName) ==
  [dirs |-> dirs, cwd |-> OriginalDir]

(* cleanupInit(originalDir, registrySubDir, true): chdir back, RemoveAll. *)
cleanupInit(dirs, registryName) ==
  [dirs |-> [dirs EXCEPT ![registryName] = NoDir], cwd |-> OriginalDir]

restoreOriginalDir(cwd, fail) ==
  IF fail = "restore"
  THEN [err |-> "failed to return to original directory", cwd |-> cwd]
  ELSE [err |-> "", cwd |-> OriginalDir]

(* The state a run of RegistryInit leaves, from the state it starts in. *)
InitOutcome(registryName, gitURL, fail) ==
  LET base == [err |-> "", file |-> registriesFile, dirs |-> regDirs,
               remote |-> remoteReg, cwd |-> OriginalDir,
               cloneTried |-> FALSE]
      setupErr == setupAndParseInitArgs(registryName, gitURL, fail)
  IN
  IF setupErr # "" THEN [base EXCEPT !.err = setupErr]
  ELSE
  LET loaded == loadAndCheckRegistries(registriesFile, registryName, fail) IN
  IF loaded.err # "" THEN [base EXCEPT !.err = loaded.err]
  ELSE
  LET entered == cloneAndEnterRegistry(regDirs, remoteReg, registryName,
                                       gitURL, fail)
      atClone == [base EXCEPT !.cloneTried = TRUE, !.dirs = entered.dirs,
                              !.cwd = entered.cwd]
  IN
  IF entered.err # "" THEN [atClone EXCEPT !.err = entered.err]
  ELSE
  LET tree     == entered.dirs[registryName].tree
      emptyErr == ensureDirectoryEmpty(tree, fail)
      rolled   == cleanupInit(entered.dirs, registryName)
      undone   == [atClone EXCEPT !.dirs = rolled.dirs, !.cwd = rolled.cwd]
  IN
  IF emptyErr # "" THEN [undone EXCEPT !.err = emptyErr]
  ELSE
  LET listed == updateRegistriesList(registriesFile, loaded.names,
                                     registryName, fail) IN
  IF listed.err # "" THEN [undone EXCEPT !.err = listed.err]
  ELSE
  LET written == initializeRegistryMetadata(tree, registryName, gitURL,
                                            NewUUID, fail) IN
  IF written.err # ""
  THEN [undone EXCEPT !.err = written.err, !.file = listed.file]
  ELSE
  LET pushed == commitAndPushInitialRegistryChanges(remoteReg[gitURL],
                                                    written.tree, fail) IN
  IF pushed.err # ""
  THEN [undone EXCEPT !.err = pushed.err, !.file = listed.file]
  ELSE
  LET back == restoreOriginalDir(entered.cwd, fail) IN
  [atClone EXCEPT !.err = back.err, !.file = listed.file,
                  !.dirs = [entered.dirs EXCEPT ![registryName].tree =
                              written.tree],
                  !.remote = [remoteReg EXCEPT ![gitURL] = pushed.remote],
                  !.cwd = back.cwd]

(* What is remembered of the last command: its arguments, the failure that *)
(* struck it, its result (err is "" on success, cwd the directory the       *)
(* process ends in) and, in pre, the files and remotes it started from.     *)
Snapshot == [file |-> registriesFile, dirs |-> regDirs, remote |-> remoteReg,
             tags |-> pkgTags, clones |-> clones, tmp |-> tmpClones]

NoFile == [exists |-> FALSE, names |-> <<>>]

FreshHome == [file |-> NoFile,
              dirs |-> [n \in RegNames |-> NoDir],
              remote |-> [u \in RegURLs |-> EmptyTree],
              tags |-> [u \in PkgURLs |-> InitialTags(u)],
              clones |-> EmptyMap, tmp |-> {}]

(* No helper function has been called; no init process is running. *)
NoCall == [fn |-> "none"]

NoProcs == <<>>

NoCmd == [cmd |-> "none", reg |-> "", url |-> "", pkg |-> <<>>,
          version |-> <<>>, fail |-> "none", err |-> "",
          cwd |-> OriginalDir, cloneTried |-> FALSE, validTags |-> <<>>,
          tmpClone |-> 0, commitMsg |-> <<>>, pre |-> FreshHome]

(* A run is named by the failure that strikes it: an injected failure at a  *)
(* step the run never reaches gives the run without it and is left out.     *)
RegistryInit(registryName, gitURL, fail) ==
  LET out == InitOutcome(registryName, gitURL, fail) IN
  /\ ncmds < MaxCmds
  /\ fail # "none" => out # InitOutcome(registryName, gitURL, "none")
  /\ ncmds' = ncmds + 1
  /\ registriesFile' = out.file
  /\ regDirs' = out.dirs
  /\ remoteReg' = out.remote
  /\ last' = [NoCmd EXCEPT !.cmd = "init", !.reg = registryName,
                           !.url = gitURL, !.fail = fail, !.err = out.err,
                           !.cwd = out.cwd, !.cloneTried = out.cloneTried,
                           !.pre = Snapshot]
  /\ UNCHANGED <<pkgTags, clones, tmpClones, call, procs>>

----------------------------------------------------------------------------
(* registry add <registry name> <package giturl>                            *)

AddFailPoints == {"none", "cosmdir", "readIndex", "getwd", "pull", "readMeta",
                  "mkClones", "clonePkg", "chdirTmp", "tag", "pushTag",
                  "mkPkgDir", "parseCatalog", "writeCatalog", "mkVersionDir",
                  "revList",
                  "writeSpec", "removeOld", "rename", "writeMeta", "chdirReg",
                  "stage", "commit", "push"}

(* The failures addPackageVersion can meet, each at any tag of the tag set. *)
VersionFailPoints == {"mkVersionDir", "revList", "writeSpec"}

parseArgsAndSetup(registryName, packageGitURL, fail) ==
  IF registryName = "" THEN "Registry name cannot be empty"
  ELSE IF packageGitURL = "" THEN "Package Git URL cannot be empty"
  ELSE IF fail = "cosmdir" THEN "Error getting global .cosm directory"
  ELSE ""

assertRegistryExists(file, registryName, fail) ==
  IF ~file.exists THEN "No registries found"
  ELSE IF fail = "readIndex" THEN "Error reading registries.json"
  ELSE IF \E i \in 1..Len(file.names) : file.names[i] = registryName
  THEN ""
  ELSE "not found in registries.json"

(* TRUE when every file of tree a is in tree b with the same content. *)
TreeWithin(a, b) ==
  /\ a.meta.exists => b.meta.exists
  /\ \A k \in DOMAIN a.meta.packages :
        k \in DOMAIN b.meta.packages
        /\ b.meta.packages[k] = a.meta.packages[k]
  /\ a.pkgdirs \subseteq b.pkgdirs
  /\ \A d \in DOMAIN a.versions :
        d \in DOMAIN b.versions /\ Len(a.versions[d]) <= Len(b.versions[d])
  /\ DOMAIN a.specs \subseteq DOMAIN b.specs

(* pullRegistryUpdates without the git pull. *)
pullNothing(dirs, remote, registryName, fail) ==
  LET dir == dirs[registryName] IN
  IF fail = "getwd"
  THEN [err |-> "Error getting current directory", tree |-> dir.tree]
  ELSE IF ~dir.exists
  THEN [err |-> "Error changing to registry directory", tree |-> dir.tree]
  ELSE [err |-> "", tree |-> dir.tree]

(* pullRegistryUpdates setting the working tree to the remote's tree. *)
pullResettingToRemote(dirs, remote, registryName, fail) ==
  LET dir == dirs[registryName] IN
  IF fail = "getwd"
  THEN [err |-> "Error getting current directory", tree |-> dir.tree]
  ELSE IF ~dir.exists
  THEN [err |-> "Error changing to registry directory", tree |-> dir.tree]
  ELSE IF fail = "pull"
  THEN [err |-> "Error pulling updates", tree |-> dir.tree]
  ELSE [err |-> "", tree |-> remote[dir.origin]]

(* git pull origin main inside registries/<name>: a remote with nothing new *)
(* leaves the working tree alone, a remote that is ahead replaces it.       *)
pullRegistryUpdates(dirs, remote, registryName, fail) ==
  LET dir == dirs[registryName] IN
  IF fail = "getwd"
  THEN [err |-> "Error getting current directory", tree |-> dir.tree]
  ELSE IF ~dir.exists
  THEN [err |-> "Error changing to registry directory", tree |-> dir.tree]
  ELSE IF fail = "pull"
  THEN [err |-> "Error pulling updates", tree |-> dir.tree]
  ELSE [err |-> "",
        tree |-> IF TreeWithin(remote[dir.origin], dir.tree)
                 THEN dir.tree ELSE remote[dir.origin]]

loadRegistryMetadata(tree, fail) ==
  IF ~tree.meta.exists \/ fail = "readMeta"
  THEN [err |-> "Error reading registry.json", registry |-> NoMeta]
  ELSE [err |-> "", registry |-> tree.meta]

(* The temporary clone is clones/tmp-clone-<uuid.New()>; a failed clone is  *)
(* removed again before the exit.                                           *)
clonePackageToTempDir(fail) ==
  IF fail = "mkClones" THEN "Error creating clones directory"
  ELSE IF fail = "clonePkg" THEN "Error cloning package repository"
  ELSE ""

enterCloneDir(fail) ==
  IF fail = "chdirTmp" THEN "Error changing to cloned directory" ELSE ""

(* validateProjectFile asking for the version before it looks at the UUID. *)
validateProjectFileVersionFirst(project) ==
  IF project.file = "missing" THEN "does not contain a Project.json file"
  ELSE IF project.file = "badjson" THEN "invalid Project.json"
  ELSE IF project.Name = <<>> THEN "does not contain a valid package name"
  ELSE IF project.Version = <<>> THEN "does not contain a version"
  ELSE IF project.UUID = "" THEN "does not contain a valid UUID"
  ELSE IF project.UUID \notin ValidUUIDs THEN "invalid UUID"
  ELSE IF ~ParseSemVer(project.Version).ok THEN "invalid version"
  ELSE ""

validateProjectFile(project) ==
  IF project.file = "missing" THEN "does not contain a Project.json file"
  ELSE IF project.file = "badjson" THEN "invalid Project.json"
  ELSE IF project.Name = <<>> THEN "does not contain a valid package name"
  ELSE IF project.UUID = "" THEN "does not contain a valid UUID"
  ELSE IF project.UUID \notin ValidUUIDs THEN "invalid UUID"
  ELSE IF project.Version = <<>> THEN "does not contain a version"
  ELSE IF ~ParseSemVer(project.Version).ok THEN "invalid version"
  ELSE ""

(* ensurePackageNotRegistered without its lookup. *)
acceptRegisteredPackage(registry, packageName) == ""

ensurePackageNotRegistered(registry, packageName) ==
  IF packageName \in DOMAIN registry.packages
  THEN "already registered" ELSE ""

(* The test the code applies to each line of the git tag output. *)
IsVersionTag(tag) == HasPrefix(tag, "v") /\ Len(Split(tag)) >= 2

(* validateAndCollectVersionTags releasing the manifest version whenever no *)
(* tag of the clone passes the test.                                        *)
collectOrReleaseTags(tags, packageVersion, fail) ==
  LET validTags == SelectSeq(tags, IsVersionTag) IN
  IF validTags # <<>>
  THEN [err |-> "", validTags |-> validTags, released |-> FALSE]
  ELSE IF fail = "tag"
  THEN [err |-> "Error tagging version", validTags |-> <<>>,
        released |-> FALSE]
  ELSE IF fail = "pushTag"
  THEN [err |-> "Error pushing tag", validTags |-> <<>>, released |-> FALSE]
  ELSE [err |-> "", validTags |-> <<packageVersion>>, released |-> TRUE]

(* released is TRUE when the manifest version was tagged and pushed. *)
validateAndCollectVersionTags(tags, packageVersion, fail) ==
  LET validTags == SelectSeq(tags, IsVersionTag) IN
  IF tags = <<>>
  THEN IF packageVersion = <<>>
       THEN [err |-> "has no version specified", validTags |-> <<>>,
             released |-> FALSE]
       ELSE IF fail = "tag"
       THEN [err |-> "Error tagging version", validTags |-> <<>>,
             released |-> FALSE]
       ELSE IF fail = "pushTag"
       THEN [err |-> "Error pushing tag", validTags |-> <<>>,
             released |-> FALSE]
       ELSE [err |-> "", validTags |-> <<packageVersion>>,
             released |-> TRUE]
  ELSE IF validTags = <<>>
       THEN [err |-> "No valid version tags", validTags |-> <<>>,
             released |-> FALSE]
       ELSE [err |-> "", validTags |-> validTags, released |-> FALSE]

ToUpper(c) ==
  CASE c = "a" -> "A" [] c = "b" -> "B" [] c = "c" -> "C" [] c = "d" -> "D"
    [] OTHER -> c

(* The list in versions.json of a package directory, empty without one. *)
CatalogOfDir(tree, packageDir) ==
  IF packageDir \in DOMAIN tree.versions THEN tree.versions[packageDir]
  ELSE <<>>

(* <registry>/<uppercase first letter>/<package name> *)
PackageDir(packageName) == <<ToUpper(packageName[1]), packageName>>

setupPackageDir(tree, packageName, fail) ==
  IF fail = "mkPkgDir"
  THEN [err |-> "Error creating package directory", tree |-> tree]
  ELSE [err |-> "",
        tree |-> [tree EXCEPT !.pkgdirs = @ \cup {PackageDir(packageName)}]]

InSeq(x, s) == \E i \in 1..Len(s) : s[i] = x

RECURSIVE AppendNew(_, _)
AppendNew(existingVersions, tagsToAdd) ==
  IF tagsToAdd = <<>> THEN existingVersions
  ELSE AppendNew(IF InSeq(Head(tagsToAdd), existingVersions)
                 THEN existingVersions
                 ELSE Append(existingVersions, Head(tagsToAdd)),
                 Tail(tagsToAdd))

(* updateVersionsList without the read of the existing versions.json. *)
overwriteVersionsList(tree, packageDir, tagsToAdd, fail) ==
  IF fail = "writeCatalog"
  THEN [err |-> "Error writing versions.json", tree |-> tree]
  ELSE [err |-> "",
        tree |-> [tree EXCEPT !.versions =
                    Put(@, packageDir, AppendNew(<<>>, tagsToAdd))]]

(* updateVersionsList appending every tag without looking for it in the    *)
(* list first.                                                              *)
appendToVersionsList(tree, packageDir, tagsToAdd, fail) ==
  LET present          == packageDir \in DOMAIN tree.versions
      existingVersions == IF present THEN tree.versions[packageDir] ELSE <<>>
  IN  IF present /\ fail = "parseCatalog"
      THEN [err |-> "Error parsing versions.json", tree |-> tree]
      ELSE IF fail = "writeCatalog"
      THEN [err |-> "Error writing versions.json", tree |-> tree]
      ELSE [err |-> "",
            tree |-> [tree EXCEPT !.versions =
                        Put(@, packageDir, existingVersions \o tagsToAdd)]]

(* A versions.json that cannot be read counts as none.  One that is read    *)
(* but is not a JSON list of strings (failure parseCatalog: the file was    *)
(* written by something other than this function) ends the run.             *)
updateVersionsList(tree, packageDir, tagsToAdd, fail) ==
  LET present          == packageDir \in DOMAIN tree.versions
      existingVersions == IF present THEN tree.versions[packageDir] ELSE <<>>
  IN  IF present /\ fail = "parseCatalog"
      THEN [err |-> "Error parsing versions.json", tree |-> tree]
      ELSE IF fail = "writeCatalog"
      THEN [err |-> "Error writing versions.json", tree |-> tree]
      ELSE [err |-> "",
            tree |-> [tree EXCEPT !.versions =
                        Put(@, packageDir,
                            AppendNew(existingVersions, tagsToAdd))]]

(* addPackageVersion asking git rev-list for HEAD instead of the tag. *)
addPackageVersionAtHead(tree, packageDir, packageName, packageUUID, packageGitURL, versionTag, fail) ==
  IF fail = "mkVersionDir"
  THEN [err |-> "Error creating version directory", tree |-> tree]
  ELSE IF fail = "revList"
  THEN [err |-> "Error getting SHA1", tree |-> tree]
  ELSE IF fail = "writeSpec"
  THEN [err |-> "Error writing specs.json", tree |-> tree]
  ELSE [err |-> "",
        tree |-> [tree EXCEPT !.specs =
                    Put(@, <<packageDir, versionTag>>,
                        [Name |-> packageName, UUID |-> packageUUID,
                         Version |-> versionTag, GitURL |-> packageGitURL,
                         SHA1 |-> Sha1(packageGitURL, <<"HEAD">>),
                         Deps |-> Project(packageGitURL).Deps])]]

(* The project handed to addPackageVersion is the Project.json of the      *)
(* clone of packageGitURL.                                                  *)
addPackageVersion(tree, packageDir, packageName, packageUUID, packageGitURL, versionTag, fail) ==
  IF fail = "mkVersionDir"
  THEN [err |-> "Error creating version directory", tree |-> tree]
  ELSE IF fail = "revList"
  THEN [err |-> "Error getting SHA1", tree |-> tree]
  ELSE IF fail = "writeSpec"
  THEN [err |-> "Error writing specs.json", tree |-> tree]
  ELSE [err |-> "",
        tree |-> [tree EXCEPT !.specs =
                    Put(@, <<packageDir, versionTag>>,
                        [Name |-> packageName, UUID |-> packageUUID,
                         Version |-> versionTag, GitURL |-> packageGitURL,
                         SHA1 |-> Sha1(packageGitURL, versionTag),
                         Deps |-> Project(packageGitURL).Deps])]]

(* The loop of updatePackageVersions from tag i on; a failure of            *)
(* addPackageVersion strikes at tag failAt.                                 *)
RECURSIVE addVersionsFrom(_, _, _, _, _, _, _, _, _)
addVersionsFrom(tree, i, packageDir, packageName, packageUUID, packageGitURL, validTags, fail, failAt) ==
  IF i > Len(validTags) THEN [err |-> "", tree |-> tree]
  ELSE LET one == addPackageVersion(tree, packageDir, packageName,
                                    packageUUID, packageGitURL, validTags[i],
                                    IF i = failAt THEN fail ELSE "none")
       IN  IF one.err # "" THEN one
           ELSE addVersionsFrom(one.tree, i + 1, packageDir, packageName,
                                packageUUID, packageGitURL, validTags, fail,
                                failAt)

(* updatePackageVersions writing the version specs before the catalog. *)
updatePackageVersionsSpecsFirst(tree, packageDir, packageName, packageUUID, packageGitURL, validTags, fail, failAt) ==
  LET added == addVersionsFrom(tree, 1, packageDir, packageName, packageUUID,
                               packageGitURL, validTags, fail, failAt)
  IN  IF added.err # "" THEN added
      ELSE updateVersionsList(added.tree, packageDir, validTags, fail)

updatePackageVersions(tree, packageDir, packageName, packageUUID, packageGitURL, validTags, fail, failAt) ==
  LET listed == updateVersionsList(tree, packageDir, validTags, fail) IN
  IF listed.err # "" THEN listed
  ELSE addVersionsFrom(listed.tree, 1, packageDir, packageName, packageUUID,
                       packageGitURL, validTags, fail, failAt)

(* moveCloneToPermanentDir refusing to replace an existing clones/<UUID>. *)
moveCloneUnlessPresent(cl, packageUUID, packageGitURL, fail) ==
  IF packageUUID \in DOMAIN cl
  THEN [err |-> "Error removing existing clone", clones |-> cl]
  ELSE IF fail = "rename"
  THEN [err |-> "Error moving package", clones |-> cl]
  ELSE [err |-> "", clones |-> Put(cl, packageUUID, packageGitURL)]

(* An existing clones/<UUID> is removed, then the temporary clone renamed;  *)
(* on either failure the temporary clone is removed.                        *)
moveCloneToPermanentDir(cl, packageUUID, packageGitURL, fail) ==
  IF packageUUID \in DOMAIN cl /\ fail = "removeOld"
  THEN [err |-> "Error removing existing clone", clones |-> cl]
  ELSE IF fail = "rename"
  THEN [err |-> "Error moving package",
        clones |-> [u \in DOMAIN cl \ {packageUUID} |-> cl[u]]]
  ELSE [err |-> "", clones |-> Put(cl, packageUUID, packageGitURL)]

(* updateRegistryMetadata starting from an empty package mapping. *)
writeMetadataOfOnePackage(tree, registry, packageName, packageUUID, fail) ==
  IF fail = "writeMeta"
  THEN [err |-> "Error writing registry.json", tree |-> tree]
  ELSE [err |-> "",
        tree |-> [tree EXCEPT !.meta =
                    [registry EXCEPT !.packages =
                       Put(EmptyMap, packageName, packageUUID)]]]

updateRegistryMetadata(tree, registry, packageName, packageUUID, fail) ==
  IF fail = "writeMeta"
  THEN [err |-> "Error writing registry.json", tree |-> tree]
  ELSE [err |-> "",
        tree |-> [tree EXCEPT !.meta =
                    [registry EXCEPT !.packages =
                       Put(@, packageName, packageUUID)]]]

(* No commit was made. *)
NoCommit == <<>>

(* "Added package <packageName> version <versionTag>" *)
CommitMsg(packageName, versionTag) ==
  <<"Added package", packageName, "version", versionTag>>

(* commitAndPushRegistryChanges pushing what it could not stage. *)
pushUnstagedRegistryChanges(remoteTree, tree, cwd, registryName, packageName, versionTag, fail) ==
  IF fail = "chdirReg"
  THEN [err |-> "Error changing to registry directory",
        remote |-> remoteTree, cwd |-> cwd, msg |-> NoCommit]
  ELSE IF fail = "stage"
  THEN [err |-> "Error staging changes", remote |-> tree,
        cwd |-> RegistryDir(registryName), msg |-> NoCommit]
  ELSE IF fail = "commit"
  THEN [err |-> "Error committing changes", remote |-> remoteTree,
        cwd |-> RegistryDir(registryName), msg |-> NoCommit]
  ELSE IF fail = "push"
  THEN [err |-> "Error pushing changes", remote |-> remoteTree,
        cwd |-> RegistryDir(registryName),
        msg |-> CommitMsg(packageName, versionTag)]
  ELSE [err |-> "", remote |-> tree, cwd |-> RegistryDir(registryName),
        msg |-> CommitMsg(packageName, versionTag)]

(* chdir into the registry clone, git add ., git commit -m <message>, git  *)
(* push origin main; msg is the message of the commit the run made.         *)
commitAndPushRegistryChanges(remoteTree, tree, cwd, registryName, packageName, versionTag, fail) ==
  IF fail = "chdirReg"
  THEN [err |-> "Error changing to registry directory",
        remote |-> remoteTree, cwd |-> cwd, msg |-> NoCommit]
  ELSE IF fail = "stage"
  THEN [err |-> "Error staging changes", remote |-> remoteTree,
        cwd |-> RegistryDir(registryName), msg |-> NoCommit]
  ELSE IF fail = "commit"
  THEN [err |-> "Error committing changes", remote |-> remoteTree,
        cwd |-> RegistryDir(registryName), msg |-> NoCommit]
  ELSE IF fail = "push"
  THEN [err |-> "Error pushing changes", remote |-> remoteTree,
        cwd |-> RegistryDir(registryName),
        msg |-> CommitMsg(packageName, versionTag)]
  ELSE [err |-> "", remote |-> tree, cwd |-> RegistryDir(registryName),
        msg |-> CommitMsg(packageName, versionTag)]

(* cleanupTempClone leaving the directory where it is. *)
keepTempClone(tmp, id) == tmp

cleanupTempClone(tmp, id) == tmp \ {id}

(* The state a run of RegistryAdd leaves, from the state it starts in. *)
AddOutcome(registryName, packageGitURL, fail, failAt) ==
  LET base == [err |-> "", dirs |-> regDirs, remote |-> remoteReg,
               tags |-> pkgTags, clones |-> clones, tmp |-> tmpClones,
               cwd |-> OriginalDir, validTags |-> <<>>, tmpClone |-> 0,
               commitMsg |-> NoCommit]
      setupErr == parseArgsAndSetup(registryName, packageGitURL, fail)
  IN
  IF setupErr # "" THEN [base EXCEPT !.err = setupErr]
  ELSE
  LET existsErr == assertRegistryExists(registriesFile, registryName, fail) IN
  IF existsErr # "" THEN [base EXCEPT !.err = existsErr]
  ELSE
  LET pulled == pullRegistryUpdates(regDirs, remoteReg, registryName, fail) IN
  IF pulled.err # "" THEN [base EXCEPT !.err = pulled.err]
  ELSE
  LET atPull == [base EXCEPT !.dirs[registryName].tree = pulled.tree]
      loaded == loadRegistryMetadata(pulled.tree, fail)
  IN
  IF loaded.err # "" THEN [atPull EXCEPT !.err = loaded.err]
  ELSE
  LET cloneErr == clonePackageToTempDir(fail)
      id       == NewUUID
  IN
  IF cloneErr # "" THEN [atPull EXCEPT !.err = cloneErr]
  ELSE
  LET withTmp  == tmpClones \cup {id}
      cleaned  == [atPull EXCEPT !.tmpClone = id,
                                 !.tmp = cleanupTempClone(withTmp, id),
                                 !.cwd = TmpCloneDir(id)]
      enterErr == enterCloneDir(fail)
  IN
  IF enterErr # "" THEN [cleaned EXCEPT !.err = enterErr, !.cwd = OriginalDir]
  ELSE
  LET project  == Project(packageGitURL)
      validErr == validateProjectFile(project)
  IN
  IF validErr # "" THEN [cleaned EXCEPT !.err = validErr]
  ELSE
  LET dupErr == ensurePackageNotRegistered(loaded.registry, project.Name) IN
  IF dupErr # "" THEN [cleaned EXCEPT !.err = dupErr]
  ELSE
  LET collected == validateAndCollectVersionTags(pkgTags[packageGitURL],
                                                 project.Version, fail) IN
  IF collected.err # "" THEN [cleaned EXCEPT !.err = collected.err]
  ELSE
  LET tagged == [cleaned EXCEPT !.validTags = collected.validTags,
                   !.tags = IF collected.released
                            THEN [pkgTags EXCEPT ![packageGitURL] =
                                    collected.validTags]
                            ELSE pkgTags]
      setup  == setupPackageDir(pulled.tree, project.Name, fail)
  IN
  IF setup.err # "" THEN [tagged EXCEPT !.err = setup.err]
  ELSE
  LET versioned == updatePackageVersions(setup.tree, PackageDir(project.Name),
                                         project.Name, project.UUID,
                                         packageGitURL, collected.validTags,
                                         fail, failAt)
      atSpecs   == [tagged EXCEPT !.dirs[registryName].tree = versioned.tree]
  IN
  IF versioned.err # "" THEN [atSpecs EXCEPT !.err = versioned.err]
  ELSE
  LET moved   == moveCloneToPermanentDir(clones, project.UUID, packageGitURL,
                                         fail)
      atMove  == [atSpecs EXCEPT !.clones = moved.clones]
  IN
  IF moved.err # "" THEN [atMove EXCEPT !.err = moved.err]
  ELSE
  LET kept    == [atMove EXCEPT !.tmp = tmpClones,
                                !.cwd = PackageCloneDir(project.UUID)]
      written == updateRegistryMetadata(versioned.tree, loaded.registry,
                                        project.Name, project.UUID, fail)
      atMeta  == [kept EXCEPT !.dirs[registryName].tree = written.tree]
  IN
  IF written.err # "" THEN [atMeta EXCEPT !.err = written.err]
  ELSE
  LET origin == regDirs[registryName].origin
      pushed == commitAndPushRegistryChanges(remoteReg[origin], written.tree,
                                             kept.cwd, registryName,
                                             project.Name,
                                             collected.validTags[1], fail)
  IN
  [atMeta EXCEPT !.err = pushed.err, !.cwd = pushed.cwd,
                 !.remote[origin] = pushed.remote,
                 !.commitMsg = pushed.msg]

RegistryAdd(registryName, packageGitURL, fail, failAt) ==
  LET out == AddOutcome(registryName, packageGitURL, fail, failAt) IN
  /\ ncmds < MaxCmds
  /\ fail \notin VersionFailPoints => failAt = 1
  /\ fail # "none" => out # AddOutcome(registryName, packageGitURL, "none", 1)
  /\ ncmds' = ncmds + 1
  /\ regDirs' = out.dirs
  /\ remoteReg' = out.remote
  /\ pkgTags' = out.tags
  /\ clones' = out.clones
  /\ tmpClones' = out.tmp
  /\ last' = [NoCmd EXCEPT !.cmd = "add", !.reg = registryName,
                           !.url = packageGitURL, !.fail = fail,
                           !.err = out.err,
                           !.cwd = out.cwd, !.validTags = out.validTags,
                           !.tmpClone = out.tmpClone,
                           !.commitMsg = out.commitMsg, !.pre = Snapshot]
  /\ UNCHANGED <<registriesFile, call, procs>>

----------------------------------------------------------------------------
(* registry rm <registry name> <package name> [v<version>]                  *)

(* The command lines of registry rm: a version the catalog of package ax    *)
(* can hold, and one no catalog holds.                                      *)
RmArgs == {<<"r1", <<"a", "x">>, <<"v", "1", ".", "0">> >>,
           <<"r1", <<"a", "x">>, <<"v", "9", ".", "9">> >>}

(* The body of RegistryRm is empty: the command reads and writes nothing    *)
(* and, being a cobra Run function, reports no error.                       *)
RegistryRm(registryName, packageName, versionTag) ==
  /\ ncmds < MaxCmds
  /\ ncmds' = ncmds + 1
  /\ last' = [NoCmd EXCEPT !.cmd = "rm", !.reg = registryName,
                           !.pkg = packageName, !.version = versionTag,
                           !.pre = Snapshot]
  /\ UNCHANGED <<registriesFile, regDirs, remoteReg, pkgTags, clones,
                 tmpClones, call, procs>>

----------------------------------------------------------------------------
(* registry status <registry name>                                          *)

StatusFailPoints == {"none", "cosmdir", "readIndex", "readMeta"}

(* The error RegistryStatus ends with ("" when it prints the overview). *)
StatusOutcome(registryName, fail) ==
  IF registryName = "" THEN "Registry name cannot be empty"
  ELSE IF fail = "cosmdir" THEN "Error getting .cosm directory"
  ELSE
  LET existsErr == assertRegistryExists(registriesFile, registryName, fail) IN
  IF existsErr # "" THEN existsErr
  ELSE loadRegistryMetadata(regDirs[registryName].tree, fail).err

(* RegistryStatus reads registries.json and registry.json and prints. *)
RegistryStatus(registryName, fail) ==
  LET err == StatusOutcome(registryName, fail) IN
  /\ ncmds < MaxCmds
  /\ fail # "none" => err # StatusOutcome(registryName, "none")
  /\ ncmds' = ncmds + 1
  /\ last' = [NoCmd EXCEPT !.cmd = "status", !.reg = registryName,
                           !.fail = fail, !.err = err, !.pre = Snapshot]
  /\ UNCHANGED <<registriesFile, regDirs, remoteReg, pkgTags, clones,
                 tmpClones, call, procs>>

----------------------------------------------------------------------------
(* registry clone <giturl>, registry delete <registry name>,                *)
(* registry update [<registry name>]                                        *)

(* The bodies of RegistryClone, RegistryDelete and RegistryUpdate are       *)
(* empty, as that of RegistryRm.                                            *)
RegistryClone(gitURL) ==
  /\ ncmds < MaxCmds
  /\ ncmds' = ncmds + 1
  /\ last' = [NoCmd EXCEPT !.cmd = "clone", !.url = gitURL,
                           !.pre = Snapshot]
  /\ UNCHANGED <<registriesFile, regDirs, remoteReg, pkgTags, clones,
                 tmpClones, call, procs>>

RegistryDelete(registryName) ==
  /\ ncmds < MaxCmds
  /\ ncmds' = ncmds + 1
  /\ last' = [NoCmd EXCEPT !.cmd = "delete", !.reg = registryName,
                           !.pre = Snapshot]
  /\ UNCHANGED <<registriesFile, regDirs, remoteReg, pkgTags, clones,
                 tmpClones, call, procs>>

(* registry update without a name is registry update --all. *)
RegistryUpdate(registryName) ==
  /\ ncmds < MaxCmds
  /\ ncmds' = ncmds + 1
  /\ last' = [NoCmd EXCEPT !.cmd = "update", !.reg = registryName,
                           !.pre = Snapshot]
  /\ UNCHANGED <<registriesFile, regDirs, remoteReg, pkgTags, clones,
                 tmpClones, call, procs>>

(* The longest tag list of a package repository. *)
MaxTagCount ==
  CHOOSE n \in 0..20 :
    /\ \E u \in PkgURLs : Len(InitialTags(u)) = n
    /\ \A u \in PkgURLs : Len(InitialTags(u)) <= n

(* The tool keeps its state in the home directory between runs.  A         *)
(* behaviour starts from a fresh home directory, or from the one that        *)
(* "registry init r1 g1" leaves when every step of it succeeds (the UUID 0   *)
(* of that registry was generated before the behaviour starts).             *)
InitializedHome ==
  LET tree == initializeRegistryMetadata(EmptyTree, "r1", "g1", 0, "none").tree
  IN  [FreshHome EXCEPT
         !.file = updateRegistriesList(NoFile, <<>>, "r1", "none").file,
         !.dirs["r1"] = [exists |-> TRUE, tree |-> tree, origin |-> "g1"],
         !.remote["g1"] =
            commitAndPushInitialRegistryChanges(EmptyTree, tree, "none").remote]

Init ==
  /\ \E home \in {FreshHome, InitializedHome} :
        /\ registriesFile = home.file
        /\ regDirs = home.dirs
        /\ remoteReg = home.remote
        /\ pkgTags = home.tags
        /\ clones = home.clones
        /\ tmpClones = home.tmp
  /\ ncmds = 0
  /\ last = NoCmd
  /\ call = NoCall
  /\ procs = NoProcs

(* The argument pairs of the command lines: every name with every URL, and *)
(* one line with an empty name and one with an empty URL.                   *)
InitArgs == (RegNames \X RegURLs) \cup {<<"", "g1">>, <<"r1", "">>}

AddArgs == (RegNames \X PkgURLs) \cup {<<"", "pA">>, <<"r1", "">>}

StatusArgs == RegNames \cup {""}

UpdateArgs == RegNames \cup {""}

Next ==
  \/ \E a \in InitArgs, f \in InitFailPoints : RegistryInit(a[1], a[2], f)
  \/ \E a \in AddArgs, f \in AddFailPoints, k \in 1..MaxTagCount :
        RegistryAdd(a[1], a[2], f, k)
  \/ \E a \in RmArgs : RegistryRm(a[1], a[2], a[3])
  \/ \E n \in StatusArgs, f \in StatusFailPoints : RegistryStatus(n, f)
  \/ \E u \in RegURLs : RegistryClone(u)
  \/ \E n \in RegNames : RegistryDelete(n)
  \/ \E n \in UpdateArgs : RegistryUpdate(n)

Spec == Init /\ [][Next]_vars

----------------------------------------------------------------------------
(* registry add on package repositories with a broken Project.json, in the  *)
(* home directory a successful "registry init r1 g1" leaves.                *)

InitManifest ==
  /\ registriesFile = InitializedHome.file
  /\ regDirs = InitializedHome.dirs
  /\ remoteReg = InitializedHome.remote
  /\ pkgTags = InitializedHome.tags
  /\ clones = InitializedHome.clones
  /\ tmpClones = InitializedHome.tmp
  /\ ncmds = 0
  /\ last = NoCmd
  /\ call = NoCall
  /\ procs = NoProcs

ManifestArgs == {"r1"} \X (BrokenURLs \cup {"pA"})

NextManifest ==
  \E a \in ManifestArgs, f \in AddFailPoints, k \in 1..MaxTagCount :
     RegistryAdd(a[1], a[2], f, k)

SpecManifest == InitManifest /\ [][NextManifest]_vars

----------------------------------------------------------------------------
(* registry add in a home directory whose registry clone is behind its      *)
(* remote: after "registry init r1 g1" here, another machine registered     *)
(* package ax from pA in the registry and pushed.                           *)

RemoteAheadHome ==
  LET local     == InitializedHome.dirs["r1"].tree
      project   == Project("pA")
      validTags == <<project.Version>>
      setup     == setupPackageDir(local, project.Name, "none").tree
      versioned == updatePackageVersions(setup, PackageDir(project.Name),
                                         project.Name, project.UUID, "pA",
                                         validTags, "none", 1).tree
      written   == updateRegistryMetadata(versioned, local.meta, project.Name,
                                          project.UUID, "none").tree
  IN  [InitializedHome EXCEPT !.remote["g1"] = written,
                              !.tags["pA"] = validTags]

InitPull ==
  /\ \E home \in {FreshHome, RemoteAheadHome} :
        /\ registriesFile = home.file
        /\ regDirs = home.dirs
        /\ remoteReg = home.remote
        /\ pkgTags = home.tags
        /\ clones = home.clones
        /\ tmpClones = home.tmp
  /\ ncmds = 0
  /\ last = NoCmd
  /\ call = NoCall
  /\ procs = NoProcs

NextPull ==
  \E a \in AddArgs, f \in AddFailPoints, k \in 1..MaxTagCount :
     RegistryAdd(a[1], a[2], f, k)

SpecPull == InitPull /\ [][NextPull]_vars

----------------------------------------------------------------------------
(* The helper functions, each called on its own with arguments drawn from   *)
(* bounded sets.  The home directory plays no part.                         *)

(* A behaviour makes one call; the home directory plays no part in it. *)
OnlyCall ==
  /\ call = NoCall
  /\ UNCHANGED <<registriesFile, regDirs, remoteReg, pkgTags, clones,
                 tmpClones, ncmds, last, procs>>

(* Version strings: an optional "v" and up to MaxParts dot-separated        *)
(* components, each empty, a number, a signed number, a letter or a number  *)
(* with a suffix.                                                           *)
MaxParts == 4

Components == { <<>>, <<"0">>, <<"7">>, <<"1", "2">>, <<"x">>,
                <<"7", "-", "a">>, <<"-", "2">> }

RECURSIVE Join(_)
Join(parts) ==
  IF Len(parts) = 1 THEN parts[1]
  ELSE parts[1] \o <<".">> \o Join(Tail(parts))

VersionInputs ==
  UNION { { prefix \o Join(parts) : prefix \in {<<>>, <<"v">>} } :
          parts \in UNION { [1..n -> Components] : n \in 1..MaxParts } }

CallParseSemVer(version) ==
  /\ OnlyCall
  /\ call' = [fn |-> "ParseSemVer", version |-> version,
              result |-> ParseSemVer(version)]

(* The arguments of MaxSemVer: versions of two and three numbers, with and *)
(* without the "v", and three strings ParseSemVer rejects.                  *)
Numbers == {0, 7, 12}

Itoa(n) ==
  LET digit(d) == CHOOSE c \in Digits : DigitVal(c) = d IN
  IF n < 10 THEN <<digit(n)>> ELSE <<digit(n \div 10), digit(n % 10)>>

Dotted2(x, y) == Itoa(x) \o <<".">> \o Itoa(y)

Dotted3(x, y, z) == Dotted2(x, y) \o <<".">> \o Itoa(z)

WithV(version) == {version, <<"v">> \o version}

ComparedVersions ==
  UNION { WithV(Dotted2(x, y)) : x \in Numbers, y \in Numbers }
  \cup UNION { WithV(Dotted3(x, y, z)) :
                 x \in Numbers, y \in Numbers, z \in Numbers }
  \cup { <<"x">>, <<"v", "7">>, <<"7", ".", "x">> }

CallMaxSemVer(v1, v2) ==
  /\ OnlyCall
  /\ call' = [fn |-> "MaxSemVer", v1 |-> v1, v2 |-> v2,
              result |-> MaxSemVer(v1, v2)]

(* strings.Contains on texts that are sequences of words. *)
Contains(s, substr) ==
  \E i \in 0..(Len(s) - Len(substr)) :
     SubSeq(s, i + 1, i + Len(substr)) = substr

NothingToCommit == <<"nothing", "to", "commit">>

(* GitCommand ignoring "nothing to commit" whatever the subcommand is. *)
GitCommandAnySubcommand(subcommand, run) ==
  IF subcommand = ""
  THEN [output |-> <<>>, err |-> TRUE, ran |-> FALSE]
  ELSE IF run.failed /\ Contains(run.output, NothingToCommit)
  THEN [output |-> run.output, err |-> FALSE, ran |-> TRUE]
  ELSE [output |-> run.output, err |-> run.failed, ran |-> TRUE]

(* GitCommand(dir, subcommand, args...): run is what runCommand returns     *)
(* for "git <subcommand> <args>", its combined output and whether the       *)
(* process failed; ran tells whether runCommand was called.                 *)
GitCommand(subcommand, run) ==
  IF subcommand = ""
  THEN [output |-> <<>>, err |-> TRUE, ran |-> FALSE]
  ELSE IF run.failed /\ Contains(run.output, NothingToCommit)
                     /\ subcommand = "commit"
  THEN [output |-> run.output, err |-> FALSE, ran |-> TRUE]
  ELSE [output |-> run.output, err |-> run.failed, ran |-> TRUE]

(* Outputs of git: up to MaxWords words. *)
MaxWords == 4

Words == {"nothing", "to", "commit", "x"}

GitOutputs == UNION { [1..n -> Words] : n \in 0..MaxWords }

Subcommands == {"", "commit", "push", "status"}

CallGitCommand(subcommand, output, failed) ==
  LET run == [output |-> output, failed |-> failed] IN
  /\ OnlyCall
  /\ call' = [fn |-> "GitCommand", subcommand |-> subcommand, run |-> run,
              result |-> GitCommand(subcommand, run)]

UpToDate == <<"Everything", "up-to-date">>

(* pushToRemote taking every "Everything up-to-date" for a success. *)
pushToRemoteIgnoring(run, ignoreUpToDate) ==
  LET git == GitCommand("push", run) IN
  git.err /\ ~Contains(git.output, UpToDate)

(* pushToRemote(dir, target, ignoreUpToDate): TRUE where the code returns  *)
(* an error; run is what runCommand returns for git push origin <target>.   *)
pushToRemote(run, ignoreUpToDate) ==
  LET git == GitCommand("push", run) IN
  git.err /\ ~(ignoreUpToDate /\ Contains(git.output, UpToDate))

PushWords == {"Everything", "up-to-date", "x"}

PushOutputs == UNION { [1..n -> PushWords] : n \in 0..MaxWords }

CallPushToRemote(output, failed, ignoreUpToDate) ==
  LET run == [output |-> output, failed |-> failed] IN
  /\ OnlyCall
  /\ call' = [fn |-> "pushToRemote", run |-> run,
              ignoreUpToDate |-> ignoreUpToDate,
              err |-> pushToRemote(run, ignoreUpToDate)]

(* A Go map value: nil, or a map with entries. *)
NilMap == [nil |-> TRUE, entries |-> EmptyMap]

MakeMap(entries) == [nil |-> FALSE, entries |-> entries]

(* json.Unmarshal into types.Registry: the "packages" member of             *)
(* registry.json is absent, null or an object.                              *)
unmarshalPackages(field) ==
  IF field.kind = "object" THEN MakeMap(field.entries) ELSE NilMap

(* The package mapping loadRegistryMetadata would return without its       *)
(* nil test.                                                                *)
packagesAsDecoded(field) == unmarshalPackages(field)

(* The package mapping of the registry loadRegistryMetadata returns. *)
packagesAfterLoad(field) ==
  LET decoded == unmarshalPackages(field) IN
  IF decoded.nil THEN MakeMap(EmptyMap) ELSE decoded

(* _, exists := m[k]: reading a nil map is allowed. *)
mapHasKey(m, k) == k \in DOMAIN m.entries

(* m[k] = v: panics on a nil map. *)
mapAssign(m, k, v) ==
  IF m.nil THEN [panic |-> TRUE, map |-> m]
  ELSE [panic |-> FALSE, map |-> MakeMap(Put(m.entries, k, v))]

PackagesFields ==
  {[kind |-> "absent", entries |-> EmptyMap],
   [kind |-> "null", entries |-> EmptyMap]}
  \cup {[kind |-> "object", entries |-> [k \in names |-> "u1"]] :
          names \in SUBSET {"ax", "by"}}

(* loadRegistryMetadata followed by the lookup and the insertion RegistryAdd *)
(* makes for packageName.                                                   *)
CallLoadRegistryMetadata(field, packageName, packageUUID) ==
  LET packages == packagesAfterLoad(field) IN
  /\ OnlyCall
  /\ call' = [fn |-> "loadRegistryMetadata", field |-> field,
              packageName |-> packageName, packageUUID |-> packageUUID,
              packages |-> packages,
              registered |-> mapHasKey(packages, packageName),
              assigned |-> mapAssign(packages, packageName, packageUUID)]

(* updateVersionsList on a package directory with no versions.json or with *)
(* one that lists up to MaxTags of three tags, adding up to MaxTags tags    *)
(* (a tag list can name a tag twice).                                       *)
MaxTags == 3

CatalogTags == {Dotted2(0, 7), Dotted2(7, 0), Dotted3(7, 0, 12)}

TagLists == UNION { [1..n -> CatalogTags] : n \in 0..MaxTags }

VersionsFiles ==
  {[present |-> FALSE, versions |-> <<>>]}
  \cup {[present |-> TRUE, versions |-> l] : l \in TagLists}

CatalogFailPoints == {"none", "parseCatalog", "writeCatalog"}

CallUpdateVersionsList(versionsFile, tagsToAdd, fail) ==
  LET packageDir == PackageDir(<<"a", "x">>)
      tree   == [EmptyTree EXCEPT !.versions =
                   IF versionsFile.present
                   THEN Put(EmptyMap, packageDir, versionsFile.versions)
                   ELSE EmptyMap]
      result == updateVersionsList(tree, packageDir, tagsToAdd, fail)
  IN  /\ OnlyCall
      /\ call' = [fn |-> "updateVersionsList", versionsFile |-> versionsFile,
                  tagsToAdd |-> tagsToAdd, fail |-> fail, err |-> result.err,
                  after |-> [present |-> packageDir \in
                                           DOMAIN result.tree.versions,
                             versions |-> CatalogOfDir(result.tree,
                                                       packageDir)]]

InitUtil ==
  /\ registriesFile = FreshHome.file
  /\ regDirs = FreshHome.dirs
  /\ remoteReg = FreshHome.remote
  /\ pkgTags = FreshHome.tags
  /\ clones = FreshHome.clones
  /\ tmpClones = FreshHome.tmp
  /\ ncmds = 0
  /\ last = NoCmd
  /\ call = NoCall
  /\ procs = NoProcs

(* The arguments a call can still take: none once the call is made. *)
Once(inputs) == IF call = NoCall THEN inputs ELSE {}

NextUtil ==
  \/ \E v \in Once(VersionInputs) : CallParseSemVer(v)
  \/ \E v1 \in Once(ComparedVersions), v2 \in ComparedVersions :
        CallMaxSemVer(v1, v2)
  \/ \E c \in Once(Subcommands), o \in GitOutputs, f \in BOOLEAN :
        CallGitCommand(c, o, f)
  \/ \E field \in Once(PackagesFields), n \in {"ax", "cz"},
        u \in {"u1", "u2"} :
        CallLoadRegistryMetadata(field, n, u)
  \/ \E o \in Once(PushOutputs), f \in BOOLEAN, i \in BOOLEAN :
        CallPushToRemote(o, f, i)
  \/ \E file \in Once(VersionsFiles), tags \in TagLists \ {<<>>},
        f \in CatalogFailPoints :
        CallUpdateVersionsList(file, tags, f)

SpecUtil == InitUtil /\ [][NextUtil]_vars

----------------------------------------------------------------------------
(* Two registry init processes running at the same time against one home   *)
(* directory.  Each process is its own run of RegistryInit with its own     *)
(* working directory and its own copy of the names it loaded; the files     *)
(* and remotes are shared.  A step is one function called by RegistryInit;  *)
(* nothing in the code keeps the steps of two processes apart.  A process   *)
(* can find its git push failing.                                           *)

Procs == {1, 2}

ProcArgs(p) ==
  IF p = 1 THEN [name |-> "r1", url |-> "g1"]
  ELSE [name |-> "r2", url |-> "g2"]

ProcStart(p) ==
  [pc |-> "start", name |-> ProcArgs(p).name, url |-> ProcArgs(p).url,
   names |-> <<>>, err |-> "", cwd |-> OriginalDir]

SharedUnchanged == UNCHANGED <<pkgTags, clones, tmpClones, ncmds, last, call>>

Finished(p, err) == [procs EXCEPT ![p].pc = "done", ![p].err = err,
                                  ![p].cwd = OriginalDir]

(* setupAndParseInitArgs and loadAndCheckRegistries. *)
ProcLoadAndCheckRegistries(p) ==
  LET me     == procs[p]
      loaded == loadAndCheckRegistries(registriesFile, me.name, "none")
  IN  /\ me.pc = "start"
      /\ procs' = IF loaded.err # "" THEN Finished(p, loaded.err)
                  ELSE [procs EXCEPT ![p].pc = "loaded",
                                     ![p].names = loaded.names]
      /\ UNCHANGED <<registriesFile, regDirs, remoteReg>>
      /\ SharedUnchanged

(* cloneAndEnterRegistry and ensureDirectoryEmpty. *)
ProcCloneAndEnterRegistry(p) ==
  LET me      == procs[p]
      entered == cloneAndEnterRegistry(regDirs, remoteReg, me.name, me.url,
                                       "none")
      emptyErr == ensureDirectoryEmpty(entered.dirs[me.name].tree, "none")
  IN  /\ me.pc = "loaded"
      /\ IF entered.err # ""
         THEN /\ regDirs' = entered.dirs
              /\ procs' = Finished(p, entered.err)
         ELSE IF emptyErr # ""
         THEN /\ regDirs' = cleanupInit(entered.dirs, me.name).dirs
              /\ procs' = Finished(p, emptyErr)
         ELSE /\ regDirs' = entered.dirs
              /\ procs' = [procs EXCEPT ![p].pc = "cloned",
                                        ![p].cwd = entered.cwd]
      /\ UNCHANGED <<registriesFile, remoteReg>>
      /\ SharedUnchanged

(* updateRegistriesList: writes the names this process loaded and its own. *)
ProcUpdateRegistriesList(p) ==
  LET me     == procs[p]
      listed == updateRegistriesList(registriesFile, me.names, me.name,
                                     "none")
  IN  /\ me.pc = "cloned"
      /\ registriesFile' = listed.file
      /\ procs' = [procs EXCEPT ![p].pc = "listed"]
      /\ UNCHANGED <<regDirs, remoteReg>>
      /\ SharedUnchanged

ProcInitializeRegistryMetadata(p) ==
  LET me      == procs[p]
      written == initializeRegistryMetadata(regDirs[me.name].tree, me.name,
                                            me.url, p, "none")
  IN  /\ me.pc = "listed"
      /\ regDirs' = [regDirs EXCEPT ![me.name].tree = written.tree]
      /\ procs' = [procs EXCEPT ![p].pc = "written"]
      /\ UNCHANGED <<registriesFile, remoteReg>>
      /\ SharedUnchanged

ProcCommitAndPush(p, fail) ==
  LET me     == procs[p]
      pushed == commitAndPushInitialRegistryChanges(
                   remoteReg[me.url], regDirs[me.name].tree, fail)
  IN  /\ me.pc = "written"
      /\ IF pushed.err # ""
         THEN /\ regDirs' = cleanupInit(regDirs, me.name).dirs
              /\ procs' = Finished(p, pushed.err)
              /\ UNCHANGED remoteReg
         ELSE /\ remoteReg' = [remoteReg EXCEPT ![me.url] = pushed.remote]
              /\ procs' = [procs EXCEPT ![p].pc = "pushed"]
              /\ UNCHANGED regDirs
      /\ UNCHANGED registriesFile
      /\ SharedUnchanged

ProcRestoreOriginalDir(p) ==
  /\ procs[p].pc = "pushed"
  /\ procs' = Finished(p, restoreOriginalDir(procs[p].cwd, "none").err)
  /\ UNCHANGED <<registriesFile, regDirs, remoteReg>>
  /\ SharedUnchanged

InitConcurrent ==
  /\ registriesFile = FreshHome.file
  /\ regDirs = FreshHome.dirs
  /\ remoteReg = FreshHome.remote
  /\ pkgTags = FreshHome.tags
  /\ clones = FreshHome.clones
  /\ tmpClones = FreshHome.tmp
  /\ ncmds = 0
  /\ last = NoCmd
  /\ call = NoCall
  /\ procs = [p \in Procs |-> ProcStart(p)]

NextConcurrent ==
  \E p \in Procs :
     \/ ProcLoadAndCheckRegistries(p)
     \/ ProcCloneAndEnterRegistry(p)
     \/ ProcUpdateRegistriesList(p)
     \/ ProcInitializeRegistryMetadata(p)
     \/ \E fail \in {"none", "push"} : ProcCommitAndPush(p, fail)
     \/ ProcRestoreOriginalDir(p)

SpecConcurrent == InitConcurrent /\ [][NextConcurrent]_vars

----------------------------------------------------------------------------
(* Properties of RegistryInit.                                              *)

InIndex(file, name) ==
  file.exists /\ \E i \in 1..Len(file.names) : file.names[i] = name

NamesOf(file) == IF file.exists THEN file.names ELSE <<>>

(* Errors of the steps RegistryInit takes before it looks for a duplicate. *)
InitSetupErrs == {"failed to get original directory",
                  "registry name cannot be empty",
                  "git URL cannot be empty",
                  "failed to get global .cosm directory",
                  "failed to create registries directory",
                  "failed to read registries.json"}

(* Errors of the steps after the index write of RegistryInit that roll back. *)
InitLateErrs == {"failed to write registry.json",
                 "failed to stage registry.json",
                 "failed to commit initial registry setup",
                 "failed to push initial commit"}

InitRan == last.cmd = "init"

(* C1: RegistryInit with a name that is already in the index leaves         *)
(* registries.json as it was, attempts no clone and creates no directory,   *)
(* and (when the steps before the duplicate check succeed) returns the      *)
(* "already exists" error.                                                  *)
C1_DuplicateInitRejected ==
  (InitRan /\ InIndex(last.pre.file, last.reg)) =>
     /\ registriesFile = last.pre.file
     /\ ~last.cloneTried
     /\ regDirs = last.pre.dirs
     /\ last.err \notin InitSetupErrs => last.err = "already exists"

C1_Witness ==
  /\ InitRan
  /\ InIndex(last.pre.file, last.reg)
  /\ last.err = "already exists"

(* C2: a RegistryInit in which every step succeeds leaves the index equal   *)
(* to the previous index with the name appended last ([name] for a missing  *)
(* index) and a descriptor with the given name and URL, a UUID no           *)
(* descriptor held before, and an empty package mapping.                    *)
C2_InitSuccess ==
  (InitRan /\ last.err = "") =>
     LET meta == regDirs[last.reg].tree.meta IN
     /\ registriesFile.exists
     /\ registriesFile.names = Append(NamesOf(last.pre.file), last.reg)
     /\ regDirs[last.reg].exists
     /\ meta.exists
     /\ meta.name = last.reg
     /\ meta.giturl = last.url
     /\ meta.packages = EmptyMap
     /\ \A n \in RegNames : last.pre.dirs[n].tree.meta.exists =>
           last.pre.dirs[n].tree.meta.uuid # meta.uuid
     /\ \A u \in RegURLs : last.pre.remote[u].meta.exists =>
           last.pre.remote[u].meta.uuid # meta.uuid

C2_Witness ==
  /\ InitRan
  /\ last.err = ""
  /\ NamesOf(last.pre.file) # <<>>
  /\ Len(registriesFile.names) = Len(NamesOf(last.pre.file)) + 1

InitCloned == InitRan /\ last.cloneTried
                      /\ last.err # "failed to clone repository"

(* C3: when RegistryInit fails after its clone succeeded, the process ends  *)
(* in the original directory and the registry clone directory is gone.      *)
C3_RollbackAfterClone ==
  (InitCloned /\ last.err # "") =>
     /\ last.cwd = OriginalDir
     /\ ~regDirs[last.reg].exists

(* C4: a RegistryInit that fails at the descriptor write or at stage,       *)
(* commit or push leaves the new name in the index although the clone       *)
(* directory is removed; one that fails at an earlier step leaves the       *)
(* index file as it was.                                                    *)
C4_IndexNotRolledBack ==
  /\ (InitRan /\ last.err \in InitLateErrs) =>
        /\ registriesFile.exists
        /\ registriesFile.names = Append(NamesOf(last.pre.file), last.reg)
        /\ ~regDirs[last.reg].exists
  /\ (InitRan /\ last.err \notin InitLateErrs \cup
                    {"", "failed to return to original directory"}) =>
        registriesFile = last.pre.file

C4_Witness ==
  /\ InitRan
  /\ last.err = "failed to push initial commit"
  /\ InIndex(registriesFile, last.reg)
  /\ ~regDirs[last.reg].exists

NoDuplicates(seq) ==
  \A i, j \in 1..Len(seq) : seq[i] = seq[j] => i = j

(* C5: the index never holds a registry name twice. *)
C5_IndexNamesUnique == NoDuplicates(NamesOf(registriesFile))

C5_Witness ==
  /\ InitRan
  /\ InIndex(last.pre.file, last.reg)
  /\ ~last.pre.dirs[last.reg].exists
  /\ NoDuplicates(NamesOf(registriesFile))

----------------------------------------------------------------------------
(* Properties of RegistryAdd.                                               *)

AddRan == last.cmd = "add" /\ last.url \in PkgURLs

(* The state of the named registry clone before and after the last run. *)
PreTree == last.pre.dirs[last.reg].tree

PostTree == regDirs[last.reg].tree

Manifest == Project(last.url)

ManifestDir == PackageDir(Manifest.Name)

CatalogOf(tree, packageDir) ==
  IF packageDir \in DOMAIN tree.versions THEN tree.versions[packageDir]
  ELSE <<>>

(* Errors of the steps RegistryAdd takes before it reads Project.json. *)
AddSetupErrs == {"Error getting global .cosm directory",
                 "Error reading registries.json",
                 "Error getting current directory",
                 "Error pulling updates",
                 "Error reading registry.json",
                 "Error creating clones directory",
                 "Error cloning package repository",
                 "Error changing to cloned directory"}

ProjectFileErrs == {"does not contain a Project.json file",
                    "invalid Project.json",
                    "does not contain a valid package name",
                    "does not contain a valid UUID",
                    "invalid UUID",
                    "does not contain a version",
                    "invalid version"}

AlreadyRegistered ==
  /\ AddRan
  /\ InIndex(last.pre.file, last.reg)
  /\ last.pre.dirs[last.reg].exists
  /\ Manifest.Name \in DOMAIN PreTree.meta.packages

(* C6: RegistryAdd of a package whose manifest name is a key of the         *)
(* registry's package mapping leaves registry.json, every version catalog   *)
(* and every version spec of the registry as they were and, when the steps  *)
(* before the check succeed, fails with "already registered".               *)
C6_ReAddRejected ==
  AlreadyRegistered =>
     /\ last.err # ""
     /\ last.err \notin AddSetupErrs \cup ProjectFileErrs =>
           last.err = "already registered"
     /\ PostTree.meta = PreTree.meta
     /\ PostTree.versions = PreTree.versions
     /\ PostTree.specs = PreTree.specs
     /\ PostTree.pkgdirs = PreTree.pkgdirs
     /\ remoteReg = last.pre.remote

C6_Witness ==
  /\ AlreadyRegistered
  /\ last.err = "already registered"
  /\ PostTree = PreTree

(* The last run was a RegistryAdd in which every step succeeded, of a      *)
(* package whose repository had no tags.                                    *)
UntaggedAdded ==
  /\ AddRan
  /\ last.err = ""
  /\ last.pre.tags[last.url] = <<>>

(* What C7 says of the tag, the version spec and the package mapping. *)
UntaggedAddEffects ==
  LET V == Manifest.Version IN
  /\ Manifest.Name \notin DOMAIN PreTree.meta.packages
  /\ last.validTags = <<V>>
  /\ pkgTags[last.url] = <<V>>
  /\ DOMAIN PostTree.specs = DOMAIN PreTree.specs \cup {<<ManifestDir, V>>}
  /\ \A k \in DOMAIN PreTree.specs \ {<<ManifestDir, V>>} :
        PostTree.specs[k] = PreTree.specs[k]
  /\ PostTree.specs[<<ManifestDir, V>>].Version = V
  /\ PostTree.specs[<<ManifestDir, V>>].UUID = Manifest.UUID
  /\ PostTree.meta.packages =
        Put(PreTree.meta.packages, Manifest.Name, Manifest.UUID)

(* C7 as stated: after a successful RegistryAdd of an unregistered package *)
(* without tags and with manifest version V, the tag V is pushed, one spec  *)
(* is written, the mapping gains the name and the catalog is [V].           *)
C7_CatalogBecomesV ==
  UntaggedAdded =>
     /\ UntaggedAddEffects
     /\ CatalogOf(PostTree, ManifestDir) = <<Manifest.Version>>

(* C7 amended: as above, but the catalog is the catalog the package         *)
(* directory held before the run, followed by V unless V is listed in it    *)
(* ([V] when the directory held no catalog).                                *)
C7_CatalogGainsV ==
  UntaggedAdded =>
     LET old == CatalogOf(PreTree, ManifestDir)
         V   == Manifest.Version
     IN  /\ UntaggedAddEffects
         /\ CatalogOf(PostTree, ManifestDir) =
               IF InSeq(V, old) THEN old ELSE Append(old, V)

C7_Witness ==
  /\ UntaggedAdded
  /\ CatalogOf(PreTree, ManifestDir) # <<>>
  /\ Len(CatalogOf(PostTree, ManifestDir)) =
        Len(CatalogOf(PreTree, ManifestDir)) + 1

(* The last run was a RegistryAdd that got as far as listing the tags of   *)
(* the temporary clone.                                                     *)
TagsListed ==
  /\ AddRan
  /\ last.tmpClone # 0
  /\ last.err \notin
        {"Error changing to cloned directory", "already registered"}
        \cup ProjectFileErrs

PreTags == last.pre.tags[last.url]

MatchingTags == SelectSeq(PreTags, IsVersionTag)

(* One tag made from the manifest version is the tag set and is on the     *)
(* package remote, unless git tag or git push failed.                       *)
Synthesized ==
  last.err \notin {"Error tagging version", "Error pushing tag"} =>
     /\ last.validTags = <<Manifest.Version>>
     /\ pkgTags[last.url] = <<Manifest.Version>>

ExistingTagsUsed ==
  MatchingTags # <<>> =>
     /\ last.validTags = MatchingTags
     /\ pkgTags[last.url] = PreTags

IsNumber(s) == s # <<>> /\ \A i \in 1..Len(s) : s[i] \in Digits

(* v<major>.<minor>[.<patch>] with numeric components. *)
MatchesVersionPattern(tag) ==
  /\ HasPrefix(tag, "v")
  /\ LET parts == Split(TrimPrefix(tag, "v")) IN
     /\ Len(parts) \in {2, 3}
     /\ \A i \in 1..Len(parts) : IsNumber(parts[i])

CatalogsMatch(dirs) ==
  \A n \in RegNames : \A d \in DOMAIN dirs[n].tree.versions :
     \A i \in 1..Len(dirs[n].tree.versions[d]) :
        MatchesVersionPattern(dirs[n].tree.versions[d][i])

(* C9: a successful RegistryAdd that starts with every catalog entry of    *)
(* the form v<major>.<minor>[.<patch>] ends with every catalog entry of     *)
(* that form.                                                               *)
C9_CatalogEntriesMatch ==
  (AddRan /\ last.err = "" /\ CatalogsMatch(last.pre.dirs)) =>
     CatalogsMatch(regDirs)

(* C10: an entry name -> UUID of a registry's package mapping is in the    *)
(* mapping, with the same UUID, after every later run.                      *)
C10_MappingEntriesKept ==
  last.cmd = "add" =>
     \A n \in RegNames :
        \A k \in DOMAIN last.pre.dirs[n].tree.meta.packages :
           /\ regDirs[n].exists
           /\ k \in DOMAIN regDirs[n].tree.meta.packages
           /\ regDirs[n].tree.meta.packages[k] =
                 last.pre.dirs[n].tree.meta.packages[k]

C10_Witness ==
  /\ AlreadyRegistered
  /\ last.tmpClone # 0
  /\ PreTree.meta.packages[Manifest.Name] # Manifest.UUID
  /\ PostTree.meta.packages[Manifest.Name] =
        PreTree.meta.packages[Manifest.Name]

----------------------------------------------------------------------------
(* Properties of the manifest validation (SpecManifest).                    *)

(* The checks in the order the specification lists them, each with the     *)
(* reason it fails with.                                                    *)
ManifestChecks == 1..7

CheckPasses(i, m) ==
  CASE i = 1 -> m.file # "missing"
    [] i = 2 -> m.file # "badjson"
    [] i = 3 -> m.Name # <<>>
    [] i = 4 -> m.UUID # ""
    [] i = 5 -> m.UUID \in ValidUUIDs
    [] i = 6 -> m.Version # <<>>
    [] i = 7 -> ParseSemVer(m.Version).ok

CheckReason(i) ==
  CASE i = 1 -> "does not contain a Project.json file"
    [] i = 2 -> "invalid Project.json"
    [] i = 3 -> "does not contain a valid package name"
    [] i = 4 -> "does not contain a valid UUID"
    [] i = 5 -> "invalid UUID"
    [] i = 6 -> "does not contain a version"
    [] i = 7 -> "invalid version"

FailingChecks(m) == {i \in ManifestChecks : ~CheckPasses(i, m)}

FirstFailing(m) ==
  CHOOSE i \in FailingChecks(m) : \A j \in FailingChecks(m) : i <= j

(* The last run was a RegistryAdd that got as far as reading Project.json. *)
ManifestRead ==
  /\ last.cmd = "add"
  /\ last.url \in PkgURLs \cup BrokenURLs
  /\ last.tmpClone # 0
  /\ last.err # "Error changing to cloned directory"

(* C11: validateProjectFile accepts a manifest exactly when it passes all  *)
(* seven checks; otherwise RegistryAdd returns the reason of the first      *)
(* failing check in the order file, JSON, name, UUID present, UUID valid,   *)
(* version present, version valid, with the temporary clone removed and     *)
(* the registry, the package remote and the clones untouched.               *)
C11_FirstFailingCheckReported ==
  ManifestRead =>
     IF FailingChecks(Manifest) = {}
     THEN last.err \notin ProjectFileErrs
     ELSE /\ last.err = CheckReason(FirstFailing(Manifest))
          /\ last.tmpClone \notin tmpClones
          /\ regDirs = last.pre.dirs
          /\ remoteReg = last.pre.remote
          /\ pkgTags = last.pre.tags
          /\ clones = last.pre.clones

C11_Witness ==
  /\ ManifestRead
  /\ Cardinality(FailingChecks(Manifest)) >= 2
  /\ last.err = "does not contain a valid UUID"
  /\ regDirs = last.pre.dirs

----------------------------------------------------------------------------
(* Temporary clone and working directory of RegistryAdd (Spec).             *)

PackageCloned == last.cmd = "add" /\ last.tmpClone # 0

(* C12: when a RegistryAdd that cloned the package ends, at whatever step, *)
(* its temporary clone directory does not exist; after a successful run     *)
(* the clone is at the location named by the package UUID.                  *)
C12_TempCloneGone ==
  PackageCloned =>
     /\ last.tmpClone \notin tmpClones
     /\ last.err = "" =>
           /\ Manifest.UUID \in DOMAIN clones
           /\ clones[Manifest.UUID] = last.url

C12_Witness ==
  /\ PackageCloned
  /\ last.err = "Error writing specs.json"
  /\ last.tmpClone \notin tmpClones
  /\ PostTree # PreTree

(* RegistryAdd returned to its caller (the other failures end the process *)
(* with os.Exit).                                                           *)
AddReturned == last.cmd = "add" /\ last.err \in {""} \cup ProjectFileErrs

(* C13: when RegistryAdd returns, on success or with an error, the working *)
(* directory of the process is the directory the command was started in.    *)
C13_WorkingDirRestored ==
  AddReturned => last.cwd = OriginalDir

----------------------------------------------------------------------------
(* Properties of RegistryRm (Spec).                                         *)

RmRan == last.cmd = "rm" /\ last.pre.dirs[last.reg].exists

Without(seq, x) ==
  LET Other(v) == v # x IN SelectSeq(seq, Other)

(* C14: registry rm of a version the package's catalog lists leaves the    *)
(* catalog with the other versions in their order and without that one;     *)
(* registry rm of a version the catalog does not list fails and leaves the  *)
(* catalog as it was.                                                       *)
C14_VersionRemoved ==
  RmRan =>
     LET old == CatalogOf(PreTree, PackageDir(last.pkg))
         new == CatalogOf(PostTree, PackageDir(last.pkg))
     IN  IF InSeq(last.version, old)
         THEN new = Without(old, last.version)
         ELSE last.err # "" /\ new = old

----------------------------------------------------------------------------
(* Properties of the helper functions (SpecUtil).                           *)

Parsed(x, y, z) == [ok |-> TRUE, Major |-> x, Minor |-> y, Patch |-> z]

(* An optional sign and at least one digit. *)
IsInteger(s) ==
  LET body == IF s # <<>> /\ s[1] \in {"+", "-"} THEN Tail(s) ELSE s
  IN  IsNumber(body)

ParseCalled == call.fn = "ParseSemVer"

(* C15: ParseSemVer returns (X, Y, 0) for "X.Y" and "vX.Y" and (X, Y, Z)   *)
(* for "X.Y.Z" and "vX.Y.Z", and an error for an input with fewer than two  *)
(* dot-separated components or with a major, minor or patch component that  *)
(* is not an integer.                                                       *)
C15_ParseSemVerResult ==
  ParseCalled =>
     LET parts == Split(TrimPrefix(call.version, "v")) IN
     /\ \A x \in Numbers, y \in Numbers :
           call.version \in WithV(Dotted2(x, y)) =>
              call.result = Parsed(x, y, 0)
     /\ \A x \in Numbers, y \in Numbers, z \in Numbers :
           call.version \in WithV(Dotted3(x, y, z)) =>
              call.result = Parsed(x, y, z)
     /\ ( \/ Len(parts) < 2
          \/ ~IsInteger(parts[1])
          \/ ~IsInteger(parts[2])
          \/ (Len(parts) > 2 /\ ~IsInteger(parts[3])) ) => ~call.result.ok

C15_Witness ==
  /\ ParseCalled
  /\ call.version = <<"v">> \o Dotted2(7, 12)
  /\ call.result = Parsed(7, 12, 0)

Suffix == <<"-", "a">>

(* A fourth component after X.Y.Z parses to (X, Y, Z). *)
FourthComponentDropped ==
  \A x \in Numbers, y \in Numbers, z \in Numbers, c \in Components :
     call.version \in WithV(Dotted3(x, y, z) \o <<".">> \o c) =>
        call.result = Parsed(x, y, z)

(* C16 as stated: ParseSemVer parses a version with a fourth component or  *)
(* with a suffix such as "-a" after X.Y.Z to (X, Y, Z).                     *)
C16_ExtrasDropped ==
  ParseCalled =>
     /\ FourthComponentDropped
     /\ \A x \in Numbers, y \in Numbers, z \in Numbers :
           call.version \in WithV(Dotted3(x, y, z) \o Suffix) =>
              call.result = Parsed(x, y, z)

(* C16 amended: a fourth component, numeric or not, is dropped; a suffix   *)
(* attached to the patch component (or to the minor component of X.Y)       *)
(* makes ParseSemVer return an error.                                       *)
C16_SuffixRejected ==
  ParseCalled =>
     /\ FourthComponentDropped
     /\ \A x \in Numbers, y \in Numbers, z \in Numbers :
           call.version \in WithV(Dotted3(x, y, z) \o Suffix)
                            \cup WithV(Dotted2(x, y) \o Suffix) =>
              ~call.result.ok

C16_Witness ==
  /\ ParseCalled
  /\ call.version = <<"v">> \o Dotted3(0, 12, 7) \o Suffix
  /\ ~call.result.ok

(* (major, minor, patch) of a is not below that of b, major first. *)
NotLess(a, b) ==
  \/ a.Major > b.Major
  \/ a.Major = b.Major /\ a.Minor > b.Minor
  \/ a.Major = b.Major /\ a.Minor = b.Minor /\ a.Patch >= b.Patch

MaxCalled == call.fn = "MaxSemVer"

(* C17: when both arguments parse, MaxSemVer returns the first argument    *)
(* if its (major, minor, patch) is not below that of the second and the     *)
(* second argument otherwise, as the string it was given; when an argument  *)
(* does not parse it returns "" and an error.                               *)
C17_MaxSemVerResult ==
  MaxCalled =>
     LET s1 == ParseSemVer(call.v1)
         s2 == ParseSemVer(call.v2)
     IN  IF s1.ok /\ s2.ok
         THEN /\ ~call.result.err
              /\ call.result.out = IF NotLess(s1, s2) THEN call.v1
                                   ELSE call.v2
         ELSE /\ call.result.err
              /\ call.result.out = <<>>

C17_Witness ==
  /\ MaxCalled
  /\ call.v1 = <<"v">> \o Dotted2(7, 0)
  /\ call.v2 = Dotted3(7, 0, 0)
  /\ call.result.out = call.v1

GitCalled == call.fn = "GitCommand"

(* C18: GitCommand with an empty subcommand returns an error and does not  *)
(* run git; otherwise it runs git, returns the captured output and reports  *)
(* success exactly when git succeeded or the subcommand is commit and the   *)
(* output of the failed command contains "nothing to commit".               *)
C18_GitCommandResult ==
  GitCalled =>
     IF call.subcommand = ""
     THEN call.result.err /\ ~call.result.ran
     ELSE /\ call.result.ran
          /\ call.result.output = call.run.output
          /\ ~call.result.err <=>
                \/ ~call.run.failed
                \/ /\ call.subcommand = "commit"
                   /\ Contains(call.run.output, NothingToCommit)

C18_Witness ==
  /\ GitCalled
  /\ call.subcommand = "commit"
  /\ call.run.failed
  /\ Contains(call.run.output, NothingToCommit)
  /\ ~call.result.err

LoadCalled == call.fn = "loadRegistryMetadata"

(* C19: the package mapping loadRegistryMetadata returns is never nil: it  *)
(* is empty for a registry.json without packages or with packages null and  *)
(* holds the entries of the file otherwise, so the lookup and the insertion *)
(* of RegistryAdd do not panic.                                             *)
C19_PackagesNeverNil ==
  LoadCalled =>
     /\ ~call.packages.nil
     /\ call.packages.entries = call.field.entries
     /\ call.registered = (call.packageName \in DOMAIN call.field.entries)
     /\ ~call.assigned.panic
     /\ call.assigned.map.entries =
           Put(call.field.entries, call.packageName, call.packageUUID)

C19_Witness ==
  /\ LoadCalled
  /\ call.field.kind = "null"
  /\ ~call.packages.nil
  /\ call.assigned.map.entries[call.packageName] = call.packageUUID

PushCalled == call.fn = "pushToRemote"

(* C24: pushToRemote returns no error when git push succeeds, and when it  *)
(* fails with ignoreUpToDate set and "Everything up-to-date" in its output; *)
(* it returns an error for every other failed push.                         *)
C24_PushToRemoteResult ==
  PushCalled =>
     /\ ~call.run.failed => ~call.err
     /\ (call.run.failed /\ call.ignoreUpToDate
           /\ Contains(call.run.output, UpToDate)) => ~call.err
     /\ (call.run.failed /\ ~call.ignoreUpToDate) => call.err
     /\ (call.run.failed /\ ~Contains(call.run.output, UpToDate)) => call.err

C24_Witness ==
  /\ PushCalled
  /\ call.run.failed
  /\ call.ignoreUpToDate
  /\ call.run.output = <<"x">> \o UpToDate
  /\ ~call.err

CatalogCalled == call.fn = "updateVersionsList"

(* The place of the first occurrence of x in seq. *)
FirstIndex(seq, x) ==
  CHOOSE i \in 1..Len(seq) : seq[i] = x /\ \A j \in 1..(i - 1) : seq[j] # x

(* C23: updateVersionsList writes the entries versions.json held, in their *)
(* order, followed by the tags of the tag list that were not among them,    *)
(* each once and in the order of their first occurrence in the tag list; a  *)
(* list without duplicates stays without duplicates; a missing file counts  *)
(* as an empty list; a file that does not parse ends the run with an error  *)
(* and is left as it was.                                                   *)
C23_CatalogUpdate ==
  CatalogCalled =>
     LET old   == call.versionsFile.versions
         tags  == call.tagsToAdd
         new   == call.after.versions
         added == SubSeq(new, Len(old) + 1, Len(new))
     IN  IF call.versionsFile.present /\ call.fail = "parseCatalog"
         THEN /\ call.err = "Error parsing versions.json"
              /\ call.after = call.versionsFile
         ELSE IF call.fail = "writeCatalog"
         THEN /\ call.err # ""
              /\ call.after = call.versionsFile
         ELSE /\ call.err = ""
              /\ call.after.present
              /\ Len(new) >= Len(old)
              /\ SubSeq(new, 1, Len(old)) = old
              /\ NoDuplicates(added)
              /\ \A i \in 1..Len(added) :
                    InSeq(added[i], tags) /\ ~InSeq(added[i], old)
              /\ \A j \in 1..Len(tags) :
                    ~InSeq(tags[j], old) => InSeq(tags[j], added)
              /\ \A i, j \in 1..Len(added) :
                    i < j => FirstIndex(tags, added[i])
                               < FirstIndex(tags, added[j])
              /\ NoDuplicates(old) => NoDuplicates(new)

C23_Witness ==
  /\ CatalogCalled
  /\ call.err = ""
  /\ call.versionsFile.versions = <<Dotted2(7, 0)>>
  /\ call.tagsToAdd = <<Dotted2(0, 7), Dotted2(7, 0), Dotted2(0, 7)>>
  /\ call.after.versions = <<Dotted2(7, 0), Dotted2(0, 7)>>

----------------------------------------------------------------------------
(* Properties of concurrent registry init (SpecConcurrent).                 *)

WroteIndex(p) == procs[p].pc \in {"listed", "written", "pushed", "done"}

Succeeded(p) == procs[p].pc = "done" /\ procs[p].err = ""

(* C20: nothing orders the index reads and writes of two RegistryInit      *)
(* processes.  The name a process wrote is missing from the index only      *)
(* when the other process wrote the index from a copy it had loaded         *)
(* without that name, and this does happen: both processes can succeed      *)
(* with one of the two names in registries.json.                            *)
C20_LostOnlyByStaleWrite ==
  \A p \in Procs :
     WroteIndex(p) =>
        \/ InIndex(registriesFile, procs[p].name)
        \/ \E q \in Procs \ {p} :
              /\ WroteIndex(q)
              /\ ~InSeq(procs[p].name, procs[q].names)

C20_Witness ==
  /\ \A p \in Procs : Succeeded(p)
  /\ Len(registriesFile.names) = 1
  /\ \A p \in Procs : regDirs[procs[p].name].tree.meta.exists

----------------------------------------------------------------------------
(* Version specs, catalog and descriptor written by RegistryAdd (Spec).     *)

AddSucceeded == AddRan /\ last.err = ""

(* specs.json of version tag t of the package of the last run. *)
SpecFile(tree, t) == tree.specs[<<ManifestDir, t>>]

(* C25: after a successful RegistryAdd with tag set T, every tag t of T    *)
(* has a specs.json under <uppercase first letter>/<name>/<t> of the        *)
(* registry clone that holds the manifest's name, UUID and dependency list, *)
(* the version t, the package URL of the command line and the commit of     *)
(* tag t, and t is in the package's catalog.                                *)
C25_SpecsWritten ==
  AddSucceeded =>
     /\ last.validTags # <<>>
     /\ ManifestDir = <<ToUpper(Manifest.Name[1]), Manifest.Name>>
     /\ ManifestDir \in PostTree.pkgdirs
     /\ \A i \in 1..Len(last.validTags) :
           LET t == last.validTags[i] IN
           /\ <<ManifestDir, t>> \in DOMAIN PostTree.specs
           /\ SpecFile(PostTree, t) =
                 [Name |-> Manifest.Name, UUID |-> Manifest.UUID,
                  Version |-> t, GitURL |-> last.url,
                  SHA1 |-> Sha1(last.url, t), Deps |-> Manifest.Deps]
           /\ InSeq(t, CatalogOf(PostTree, ManifestDir))

C25_Witness ==
  /\ AddSucceeded
  /\ Len(last.validTags) = 2
  /\ Manifest.Deps # <<>>
  /\ SpecFile(PostTree, last.validTags[2]).SHA1 =
        Sha1(last.url, last.validTags[2])

----------------------------------------------------------------------------
(* The registries index over every command (Spec).                          *)

(* A step leaves registries.json as it is or writes it with one name       *)
(* appended to the names it held.                                           *)
IndexKeptOrAppended ==
  \/ registriesFile' = registriesFile
  \/ \E n \in RegNames :
        registriesFile' = [exists |-> TRUE,
                           names |-> Append(NamesOf(registriesFile), n)]

----------------------------------------------------------------------------
(* Registry lookup and pull of RegistryAdd (SpecPull).                      *)

PullErrs == {"Error getting current directory", "Error pulling updates"}

(* The run changed no file, no clone and no remote. *)
NothingTouched ==
  /\ registriesFile = last.pre.file
  /\ regDirs = last.pre.dirs
  /\ remoteReg = last.pre.remote
  /\ pkgTags = last.pre.tags
  /\ clones = last.pre.clones
  /\ tmpClones = last.pre.tmp

(* The working tree of the registry clone after git pull: the remote's     *)
(* tree when the remote holds something the clone does not.                 *)
PulledTree ==
  LET dir == last.pre.dirs[last.reg] IN
  IF TreeWithin(last.pre.remote[dir.origin], dir.tree) THEN dir.tree
  ELSE last.pre.remote[dir.origin]

(* The last run was a RegistryAdd that got as far as the lookup of the     *)
(* package name in the descriptor.                                          *)
NameLookedUp ==
  /\ AddRan
  /\ last.tmpClone # 0
  /\ last.err \notin {"Error changing to cloned directory"} \cup ProjectFileErrs

(* C21: RegistryAdd with a registry name that is not in the index, or with *)
(* no index file, fails without cloning the package and changes nothing; a  *)
(* failed pull ends the run before any package clone; and the package name  *)
(* is looked up in the descriptor as it is after the pull.                  *)
C21_PullBeforeLoad ==
  AddRan =>
     /\ ~InIndex(last.pre.file, last.reg) =>
           /\ last.err # ""
           /\ last.tmpClone = 0
           /\ NothingTouched
     /\ last.err \in PullErrs =>
           /\ last.tmpClone = 0
           /\ NothingTouched
     /\ last.tmpClone # 0 =>
           /\ InIndex(last.pre.file, last.reg)
           /\ TreeWithin(PulledTree, PostTree)
     /\ NameLookedUp =>
           (last.err = "already registered"
              <=> Manifest.Name \in DOMAIN PulledTree.meta.packages)

C21_Witness ==
  /\ NameLookedUp
  /\ Manifest.Name \notin DOMAIN PreTree.meta.packages
  /\ Manifest.Name \in DOMAIN PulledTree.meta.packages
  /\ last.err = "already registered"

----------------------------------------------------------------------------
(* Order of the last steps of RegistryAdd (Spec).                           *)

(* The last run was a RegistryAdd that cloned the package. *)
AddCloned == AddRan /\ last.tmpClone # 0

(* The run wrote registry.json. *)
DescriptorWritten == PostTree.meta # PulledTree.meta

(* Catalog, version specs and clone of the package are in place. *)
PackageFilesInPlace ==
  /\ \A i \in 1..Len(last.validTags) :
        /\ InSeq(last.validTags[i], CatalogOf(PostTree, ManifestDir))
        /\ <<ManifestDir, last.validTags[i]>> \in DOMAIN PostTree.specs
  /\ Manifest.UUID \in DOMAIN clones
  /\ clones[Manifest.UUID] = last.url
  /\ last.tmpClone \notin tmpClones

(* C26: RegistryAdd writes the package mapping of registry.json only after *)
(* the catalog and every version spec are written and the clone is moved;   *)
(* it then stages, commits and pushes in that order (nothing is committed   *)
(* when staging or committing fails, nothing reaches the remote unless the  *)
(* push succeeds), and the commit message names the first tag of the tag    *)
(* set only.                                                                *)
C26_DescriptorWrittenLast ==
  AddCloned =>
     /\ DescriptorWritten =>
           /\ PostTree.meta.packages =
                 Put(PulledTree.meta.packages, Manifest.Name, Manifest.UUID)
           /\ PackageFilesInPlace
     /\ last.err \in {"Error staging changes", "Error committing changes"} =>
           /\ DescriptorWritten
           /\ last.commitMsg = NoCommit
           /\ remoteReg = last.pre.remote
     /\ last.err = "Error pushing changes" =>
           /\ last.commitMsg # NoCommit
           /\ remoteReg = last.pre.remote
     /\ last.err = "" =>
           /\ last.commitMsg # NoCommit
           /\ remoteReg[regDirs[last.reg].origin] = PostTree
     /\ last.commitMsg # NoCommit =>
           /\ DescriptorWritten
           /\ last.commitMsg = CommitMsg(Manifest.Name, last.validTags[1])

C26_Witness ==
  /\ AddCloned
  /\ last.err = ""
  /\ Len(last.validTags) > 1
  /\ last.validTags[2] # last.validTags[1]
  /\ last.commitMsg = CommitMsg(Manifest.Name, last.validTags[1])

(* Errors of addPackageVersion. *)
VersionErrs == {"Error creating version directory", "Error getting SHA1",
                "Error writing specs.json"}

(* The last run was a RegistryAdd that ended inside addPackageVersion. *)
SpecAborted == AddCloned /\ last.err \in VersionErrs

HasSpec(tree, t) == <<ManifestDir, t>> \in DOMAIN tree.specs

(* C27: when RegistryAdd ends while writing the version spec of a tag,     *)
(* versions.json lists every tag of the tag set, specs.json was written     *)
(* for the tags before that tag and for none from it on, and registry.json  *)
(* is as it was after the pull and does not hold the package.               *)
C27_CatalogBeforeSpecs ==
  SpecAborted =>
     /\ \A i \in 1..Len(last.validTags) :
           InSeq(last.validTags[i], CatalogOf(PostTree, ManifestDir))
     /\ \E k \in 1..Len(last.validTags) :
           \A i \in 1..Len(last.validTags) :
              IF i < k THEN HasSpec(PostTree, last.validTags[i])
              ELSE HasSpec(PostTree, last.validTags[i])
                      <=> HasSpec(PulledTree, last.validTags[i])
     /\ PostTree.meta = PulledTree.meta
     /\ Manifest.Name \notin DOMAIN PostTree.meta.packages
     /\ remoteReg = last.pre.remote
     /\ clones = last.pre.clones

C27_Witness ==
  /\ SpecAborted
  /\ Len(last.validTags) = 2
  /\ HasSpec(PostTree, last.validTags[1])
  /\ ~HasSpec(PostTree, last.validTags[2])
  /\ InSeq(last.validTags[2], CatalogOf(PostTree, ManifestDir))
  /\ CatalogOf(PulledTree, ManifestDir) = <<>>

----------------------------------------------------------------------------
(* RegistryAdd after its commit or push failed (Spec).                      *)

(* The last run was a RegistryAdd that ended at git add, commit or push. *)
AddFailedAtEnd ==
  /\ AddCloned
  /\ last.err \in {"Error staging changes", "Error committing changes",
                   "Error pushing changes"}

(* The last run was a RegistryAdd of a package that the local registry.json *)
(* held and the remote's did not, and the pull left the local file alone.   *)
RetriedAfterFailedPush ==
  /\ AddRan
  /\ InIndex(last.pre.file, last.reg)
  /\ last.pre.dirs[last.reg].exists
  /\ Manifest.Name \in DOMAIN PreTree.meta.packages
  /\ Manifest.Name \notin
        DOMAIN last.pre.remote[last.pre.dirs[last.reg].origin].meta.packages
  /\ PulledTree = PreTree

(* C28: a RegistryAdd whose git add, commit or push fails keeps its local  *)
(* writes: registry.json holds name -> UUID and the clone is at             *)
(* clones/<UUID>, while the remote has not changed.  A later RegistryAdd    *)
(* of the package, the pull leaving the local registry.json in place, is    *)
(* rejected as already registered and the remote still lacks the package.   *)
C28_NoRollbackAfterFailedPush ==
  /\ AddFailedAtEnd =>
        /\ Manifest.Name \in DOMAIN PostTree.meta.packages
        /\ PostTree.meta.packages[Manifest.Name] = Manifest.UUID
        /\ PackageFilesInPlace
        /\ remoteReg = last.pre.remote
        /\ Manifest.Name \notin
              DOMAIN remoteReg[regDirs[last.reg].origin].meta.packages
  /\ RetriedAfterFailedPush =>
        /\ last.err # ""
        /\ last.err \notin AddSetupErrs \cup ProjectFileErrs =>
              last.err = "already registered"
        /\ remoteReg = last.pre.remote
        /\ PostTree.meta = PreTree.meta

C28_Witness ==
  /\ RetriedAfterFailedPush
  /\ last.err = "already registered"
  /\ last.pre.clones[PreTree.meta.packages[Manifest.Name]] = last.url
  /\ Manifest.Name \notin
        DOMAIN remoteReg[regDirs[last.reg].origin].meta.packages

----------------------------------------------------------------------------
(* A registry name left in the index by a failed RegistryInit (Spec).       *)

(* The name is in registries.json and registries/<name> does not exist. *)
BlockedName(file, dirs, name) == InIndex(file, name) /\ ~dirs[name].exists

(* C29: a RegistryInit that fails at the descriptor write or at stage,     *)
(* commit or push leaves its name in the index without a clone directory.   *)
(* Every later RegistryInit with that name is rejected with "already        *)
(* exists" before it clones, and no command takes the name out of the       *)
(* index or creates the directory.                                          *)
C29_FailedInitBlocksName ==
  /\ (InitRan /\ last.err \in InitLateErrs) =>
        BlockedName(registriesFile, regDirs, last.reg)
  /\ (InitRan /\ BlockedName(last.pre.file, last.pre.dirs, last.reg)) =>
        /\ last.err # ""
        /\ last.err \notin InitSetupErrs => last.err = "already exists"
        /\ ~last.cloneTried
  /\ \A n \in RegNames :
        BlockedName(last.pre.file, last.pre.dirs, n) =>
           BlockedName(registriesFile, regDirs, n)

C29_Witness ==
  /\ InitRan
  /\ BlockedName(last.pre.file, last.pre.dirs, last.reg)
  /\ last.err = "already exists"
  /\ BlockedName(registriesFile, regDirs, last.reg)

----------------------------------------------------------------------------
(* Two packages with one UUID (Spec).                                       *)

(* The names the descriptor maps to the UUID of the manifest. *)
NamesWithManifestUUID(tree) ==
  {k \in DOMAIN tree.meta.packages : tree.meta.packages[k] = Manifest.UUID}

(* The last run was a RegistryAdd of a package that is not registered and  *)
(* whose UUID is that of a registered package with another name.            *)
UUIDCollision ==
  /\ AddRan
  /\ InIndex(last.pre.file, last.reg)
  /\ last.pre.dirs[last.reg].exists
  /\ Manifest.Name \notin DOMAIN PulledTree.meta.packages
  /\ NamesWithManifestUUID(PulledTree) # {}

(* The clone has no tags (the manifest version is released) or has a tag   *)
(* that passes the test for version tags.                                   *)
TagSetExists == PreTags = <<>> \/ MatchingTags # <<>>

(* C30: RegistryAdd looks up the package name only.  Adding a package whose *)
(* UUID is that of a registered package with another name succeeds when no  *)
(* step fails and the clone yields a tag set; the descriptor then maps both *)
(* names to the UUID and clones/<UUID> is the clone of the new package in   *)
(* place of the earlier package's.                                          *)
C30_UUIDNotChecked ==
  UUIDCollision =>
     /\ (last.fail = "none" /\ TagSetExists) => last.err = ""
     /\ last.err = "" =>
           /\ NamesWithManifestUUID(PostTree) =
                 NamesWithManifestUUID(PulledTree) \cup {Manifest.Name}
           /\ clones[Manifest.UUID] = last.url
           /\ \A u \in DOMAIN last.pre.clones \ {Manifest.UUID} :
                 clones[u] = last.pre.clones[u]

C30_Witness ==
  /\ UUIDCollision
  /\ last.err = ""
  /\ Manifest.UUID \in DOMAIN last.pre.clones
  /\ last.pre.clones[Manifest.UUID] # last.url
  /\ clones[Manifest.UUID] = last.url
  /\ Cardinality(NamesWithManifestUUID(PostTree)) = 2

====
